---- MODULE Spec2Model ----
(***************************************************************************)
(* Model of the Blazium / DDDBrowser Blender scene exporter.               *)
(*                                                                         *)
(* Strings of the program are sequences of one-character strings, so that  *)
(* sanitising, path arithmetic and URI building are computed character by  *)
(* character as the Python code computes them.                             *)
(***************************************************************************)
EXTENDS Integers, Sequences, FiniteSets, TLC

VARIABLES
    osname,         \* "posix" or "nt": which os.path the interpreter uses
    objects,        \* scene_data['objects']
    settings,       \* export_settings dict
    pc,             \* position in build_scene_json / export_all_meshes
    mesh_objects,   \* scene_builder.py:96
    light_objects,  \* scene_builder.py:97
    all_materials,  \* scene_builder.py:106 (list made from a set)
    images,         \* texture_exporter.py:130 (list made from a set)
    idx,            \* index of the loop the program is in
    textures_dict,  \* ordered dict: sequence of <<key, filepath>>
    materials_dict, \* ordered dict: sequence of <<key, filepath>>
    meshes_dict,    \* ordered dict: sequence of <<key, filepath>>
    files,          \* files on disk under the export directory
    selected,       \* bpy.context.selected_objects
    active,         \* bpy.context.view_layer.objects.active
    mode,           \* mode of the host (of the active object)
    old_selected,   \* mesh_exporter.py:87
    old_active,     \* mesh_exporter.py:86
    old_mode,       \* mesh_exporter.py:88
    outcome,        \* what the external calls did, per item (environment)
    log,            \* history of external export calls, in order
    doc,            \* the scene document returned by build_scene_json
    run,            \* number of the export run (1 or 2)
    prevDoc,        \* document of the previous run
    call,           \* arguments of a pure function under test
    result          \* its result

vars == <<osname, objects, settings, pc, mesh_objects, light_objects,
          all_materials, images, idx, textures_dict, materials_dict,
          meshes_dict, files, selected, active, mode, old_selected,
          old_active, old_mode, outcome, log, doc, run, prevDoc, call, result>>

None == "None"
\* None where the program otherwise holds an object with attributes
NoneObj == [type |-> "None"]

-----------------------------------------------------------------------------
(* Python str helpers *)

\* str.replace(c, r) for a one-character c
ReplaceChar(s, c, r) == [i \in 1..Len(s) |-> IF s[i] = c THEN r ELSE s[i]]

RECURSIVE LStrip(_, _)
LStrip(s, chars) ==
    IF s # <<>> /\ Head(s) \in chars THEN LStrip(Tail(s), chars) ELSE s

RECURSIVE RStrip(_, _)
RStrip(s, chars) ==
    IF s # <<>> /\ s[Len(s)] \in chars
    THEN RStrip(SubSeq(s, 1, Len(s) - 1), chars) ELSE s

\* str.strip(chars)
Strip(s, chars) == RStrip(LStrip(s, chars), chars)

\* str.lower() on the letters the model uses
LowerChar(c) ==
    CASE c = "A" -> "a" [] c = "B" -> "b" [] c = "C" -> "c" [] c = "D" -> "d"
      [] c = "E" -> "e" [] c = "L" -> "l" [] c = "M" -> "m" [] c = "R" -> "r"
      [] c = "S" -> "s" [] c = "W" -> "w" [] OTHER -> c
Lower(s) == [i \in 1..Len(s) |-> LowerChar(s[i])]

\* split s on every character of seps (str.split for a single separator)
RECURSIVE SplitOn(_, _)
SplitOn(s, seps) ==
    IF \A i \in 1..Len(s) : s[i] \notin seps THEN <<s>>
    ELSE LET k == CHOOSE i \in 1..Len(s) :
                      s[i] \in seps /\ \A j \in 1..(i - 1) : s[j] \notin seps
         IN  <<SubSeq(s, 1, k - 1)>> \o SplitOn(SubSeq(s, k + 1, Len(s)), seps)

\* sep.join(parts)
RECURSIVE JoinWith(_, _)
JoinWith(parts, sep) ==
    IF parts = <<>> THEN <<>>
    ELSE IF Len(parts) = 1 THEN parts[1]
    ELSE parts[1] \o sep \o JoinWith(Tail(parts), sep)

-----------------------------------------------------------------------------
(* sanitize_filename *)

invalid_chars == <<"<", ">", ":", "\"", "/", "\\", "|", "?", "*">>

RECURSIVE ReplaceAll(_, _)
ReplaceAll(name, k) ==
    IF k > Len(invalid_chars) THEN name
    ELSE ReplaceAll(ReplaceChar(name, invalid_chars[k], "_"), k + 1)

\* the characters replaced, the ends left as they are
sanitize_filename_NoStrip(name) == ReplaceAll(name, 1)

sanitize_filename(name) == Strip(ReplaceAll(name, 1), {".", " "})

-----------------------------------------------------------------------------
(* os.path, for the two flavours the interpreter can run with *)

Sep(os) == IF os = "nt" THEN "\\" ELSE "/"
Seps(os) == IF os = "nt" THEN {"\\", "/"} ELSE {"/"}

\* ntpath.splitdrive for drive-letter paths; posixpath has no drives
Drive(os, p) ==
    IF os = "nt" /\ Len(p) >= 2 /\ p[2] = ":" THEN SubSeq(p, 1, 2) ELSE <<>>
NoDrive(os, p) == SubSeq(p, Len(Drive(os, p)) + 1, Len(p))

IsAbs(os, p) == LET t == NoDrive(os, p) IN t # <<>> /\ t[1] \in Seps(os)

\* os.path.join(a, b) for a relative b without a drive
PathJoin(os, a, b) ==
    IF a = <<>> THEN b
    ELSE IF a[Len(a)] \in Seps(os) \/ (os = "nt" /\ a[Len(a)] = ":")
    THEN a \o b
    ELSE a \o <<Sep(os)>> \o b

\* the components normpath keeps: no empty ones, no ".", ".." resolved
RECURSIVE Resolve(_, _, _)
Resolve(comps, acc, rooted) ==
    IF comps = <<>> THEN acc
    ELSE LET c == Head(comps) IN
         IF c = <<>> \/ c = <<".">> THEN Resolve(Tail(comps), acc, rooted)
         ELSE IF c = <<".", ".">>
         THEN IF acc # <<>> /\ acc[Len(acc)] # <<".", ".">>
              THEN Resolve(Tail(comps), SubSeq(acc, 1, Len(acc) - 1), rooted)
              ELSE IF rooted THEN Resolve(Tail(comps), acc, rooted)
              ELSE Resolve(Tail(comps), Append(acc, c), rooted)
         ELSE Resolve(Tail(comps), Append(acc, c), rooted)

Cwd(os) == IF os = "nt" THEN <<"C", ":", "\\", "w">> ELSE <<"/", "w">>

\* components of os.path.abspath(p), without the drive
AbsComps(os, p) ==
    LET q == IF IsAbs(os, p) THEN p
             ELSE PathJoin(os, Cwd(os), NoDrive(os, p))
    IN  Resolve(SplitOn(NoDrive(os, q), Seps(os)), <<>>, TRUE)

AbsDrive(os, p) ==
    IF Drive(os, p) # <<>> THEN Drive(os, p) ELSE Drive(os, Cwd(os))

\* os.path.abspath(p)
AbsPath(os, p) ==
    AbsDrive(os, p) \o <<Sep(os)>> \o JoinWith(AbsComps(os, p), <<Sep(os)>>)

\* os.path.basename(p)
Basename(os, p) ==
    LET parts == SplitOn(NoDrive(os, p), Seps(os)) IN parts[Len(parts)]

\* os.path.dirname(p)
RECURSIVE LastSep(_, _, _)
LastSep(os, t, i) ==
    IF i = 0 THEN 0 ELSE IF t[i] \in Seps(os) THEN i ELSE LastSep(os, t, i - 1)
Dirname(os, p) ==
    LET t == NoDrive(os, p)
        head == SubSeq(t, 1, LastSep(os, t, Len(t)))
    IN  Drive(os, p)
        \o (IF \A i \in 1..Len(head) : head[i] \in Seps(os) THEN head
            ELSE RStrip(head, Seps(os)))

\* os.path.splitext(name)[1] of a base name
RECURSIVE LastDot(_, _)
LastDot(s, i) == IF i = 0 THEN 0 ELSE IF s[i] = "." THEN i ELSE LastDot(s, i - 1)
\* leading dots of a base name are not an extension separator
SplitExtAt(s) ==
    LET k == LastDot(s, Len(s)) IN
    IF k = 0 \/ \A j \in 1..k : s[j] = "." THEN Len(s) + 1 ELSE k
SplitExtRoot(s) == SubSeq(s, 1, SplitExtAt(s) - 1)
SplitExtExt(s) == SubSeq(s, SplitExtAt(s), Len(s))

\* length of the common prefix of two component lists (nt compares normcase)
RECURSIVE CommonLen(_, _, _)
CommonLen(os, a, b) ==
    IF a = <<>> \/ b = <<>> THEN 0
    ELSE IF (IF os = "nt" THEN Lower(Head(a)) = Lower(Head(b))
             ELSE Head(a) = Head(b))
    THEN 1 + CommonLen(os, Tail(a), Tail(b))
    ELSE 0

ValueError == <<"ValueError">>

\* os.path.relpath(path, start): the relative path, or ValueError
RelPath(os, path, start) ==
    IF path = <<>> THEN ValueError
    ELSE IF os = "nt" /\ Lower(AbsDrive(os, path)) # Lower(AbsDrive(os, start))
    THEN ValueError
    ELSE LET pl == AbsComps(os, path)
             sl == AbsComps(os, IF start = <<>> THEN <<".">> ELSE start)
             i  == CommonLen(os, sl, pl)
             rel == [k \in 1..(Len(sl) - i) |-> <<".", ".">>]
                       \o SubSeq(pl, i + 1, Len(pl))
         IN  IF rel = <<>> THEN <<".">> ELSE JoinWith(rel, <<Sep(os)>>)

-----------------------------------------------------------------------------
(* build_asset_uri *)

\* the base URL used as it is, a trailing slash kept
UriWithBase_SlashKept(os, filepath, base_url, export_dir) ==
    LET rel == RelPath(os, filepath, export_dir) IN
    IF rel # ValueError
    THEN base_url \o <<"/">> \o ReplaceChar(rel, "\\", "/")
    ELSE base_url \o <<"/">> \o Basename(os, filepath)

\* the URI when a base URL is configured, scene_builder.py:31-45
UriWithBase(os, filepath, base_url, export_dir) ==
    LET rel  == RelPath(os, filepath, export_dir)
        base == RStrip(base_url, {"/"})
    IN  IF rel # ValueError
        THEN base \o <<"/">> \o ReplaceChar(rel, "\\", "/")
        ELSE base \o <<"/">> \o Basename(os, filepath)

\* the URI without a base URL, scene_builder.py:46-54
UriRelative(os, filepath, export_dir) ==
    LET rel == RelPath(os, filepath, export_dir) IN
    IF rel # ValueError THEN ReplaceChar(rel, "\\", "/")
    ELSE Basename(os, filepath)

build_asset_uri(os, filepath, base_url, export_dir) ==
    IF base_url # <<>>
    THEN UriWithBase(os, filepath, base_url, export_dir)
    ELSE UriRelative(os, filepath, export_dir)

-----------------------------------------------------------------------------
(* The host scene the exporter reads: objects, materials, images.          *)
(* Names are unique per kind, as the host keeps them.                      *)

Images ==
    "iBark" :> [name |-> <<"b", "a", "r", "k", ".", "p", "n", "g">>,
                packed_file |-> FALSE]
    @@
    "iDots" :> [name |-> <<".", ".", "/", "d", ".", "p", "n", "g">>,
                packed_file |-> FALSE]
    @@
    "iAo" :> [name |-> <<"m", "\\", "A", "O", ".", "j", "p", "g">>,
              packed_file |-> FALSE]

PrincipledNode(links) ==
    [type |-> "BSDF_PRINCIPLED", image |-> None, links |-> links]
ImageNode(img) == [type |-> "TEX_IMAGE", image |-> img, links |-> <<>>]
NormalMapNode(links) == [type |-> "NORMAL_MAP", image |-> None, links |-> links]
DisplacementNode(links) ==
    [type |-> "DISPLACEMENT", image |-> None, links |-> links]

Materials ==
    "mRed"  :> [name |-> <<"R", "e", "d">>, use_nodes |-> TRUE,
                nodes |-> <<PrincipledNode(<<>>)>>]
    @@
    "mWood" :> [name |-> <<"W", "o", "o", "d">>, use_nodes |-> TRUE,
                nodes |-> <<PrincipledNode("Base Color" :> 2),
                            ImageNode("iBark")>>]
    @@
    "mPbr"  :> [name |-> <<"P", "/", "b", "r">>, use_nodes |-> TRUE,
                nodes |-> <<PrincipledNode("Base Color" :> 2 @@ "Metallic" :> 3
                                           @@ "Normal" :> 4 @@ "Roughness" :> 3),
                            ImageNode("iDots"),
                            ImageNode("iAo"),
                            NormalMapNode("Color" :> 3),
                            DisplacementNode("Height" :> 2)>>]
    @@
    "mOak"  :> [name |-> <<"W", "o", "o", "d", ".">>, use_nodes |-> TRUE,
                nodes |-> <<ImageNode("iBark"),
                            PrincipledNode("Base Color" :> 1),
                            ImageNode("iBark")>>]

\* light data of the host. Numbers are fixed-point: energy, distance, the
\* shadow bias and the clip distances in hundredths, spot_blend in tenths,
\* spot_size in steps of pi/36 radians (5 degrees). attrs are the attributes
\* the host's version of the light data has.
SunLight ==
    [type |-> "SUN", energy |-> 300, spot_size |-> 9, spot_blend |-> 1,
     use_shadow |-> TRUE, distance |-> 4000, falloff_type |-> "INVERSE_SQUARE",
     shadow_buffer_bias |-> 100, shadow_buffer_clip_start |-> 10,
     shadow_buffer_clip_end |-> 5010,
     attrs |-> {"use_shadow"}]

SceneObjects ==
    "oCube" :> [type |-> "MESH", name |-> <<"C", "u", "b", "e">>,
                materials |-> <<"mRed">>, light |-> NoneObj,
                hide_viewport |-> FALSE]
    @@
    "oAB1"  :> [type |-> "MESH", name |-> <<"a", ":", "b">>,
                materials |-> <<"mWood", None, "mRed">>, light |-> NoneObj,
                hide_viewport |-> FALSE]
    @@
    "oAB2"  :> [type |-> "MESH", name |-> <<"a", "_", "b">>,
                materials |-> <<"mWood">>, light |-> NoneObj,
                hide_viewport |-> FALSE]
    @@
    "oSun"  :> [type |-> "LIGHT", name |-> <<"S", "u", "n", ".", "1">>,
                materials |-> <<>>, light |-> SunLight,
                hide_viewport |-> FALSE]
    @@
    "oEmpty" :> [type |-> "EMPTY", name |-> <<"E">>,
                 materials |-> <<>>, light |-> NoneObj,
                 hide_viewport |-> TRUE]
    @@
    "oPbr"  :> [type |-> "MESH", name |-> <<"P", "b", "r">>,
                materials |-> <<"mPbr">>, light |-> NoneObj,
                hide_viewport |-> FALSE]
    @@
    "oTwo"  :> [type |-> "MESH", name |-> <<"t", ":", "w">>,
                materials |-> <<"mWood", "mOak">>, light |-> NoneObj,
                hide_viewport |-> FALSE]
    @@
    "oTwin" :> [type |-> "MESH", name |-> <<"t", "_", "w">>,
                materials |-> <<"mOak">>, light |-> NoneObj,
                hide_viewport |-> FALSE]

\* the objects the scenes of build_scene_json on its own are made of
ObjIds == {"oCube", "oAB1", "oAB2", "oSun", "oEmpty"}

\* the largest number of objects in a scene
MaxObjs == 2

Range(f) == {f[i] : i \in DOMAIN f}

\* every list of distinct elements of S of length n
ListsOf(S, n) ==
    {f \in [1..n -> S] : \A i, j \in 1..n : f[i] = f[j] => i = j}

\* list(some_set): the elements in an order the program does not control
ListOfSet(S) == ListsOf(S, Cardinality(S))

Scenes == UNION {ListsOf(ObjIds, n) : n \in 0..MaxObjs}

\* [x for x in xs if P(x)]
RECURSIVE FilterType(_, _)
FilterType(xs, t) ==
    IF xs = <<>> THEN <<>>
    ELSE IF SceneObjects[Head(xs)].type = t
    THEN <<Head(xs)>> \o FilterType(Tail(xs), t)
    ELSE FilterType(Tail(xs), t)

-----------------------------------------------------------------------------
(* Python dict: insertion-ordered, a repeated key keeps its place *)

DictKeys(d) == {d[i][1] : i \in 1..Len(d)}
\* d.get(k), <<>> for a missing key
DictGet(d, k) ==
    IF k \in DictKeys(d)
    THEN LET i == CHOOSE i \in 1..Len(d) : d[i][1] = k IN d[i][2]
    ELSE <<>>
\* a list of pairs that takes a repeated key as a new entry
DictSet_Appending(d, k, v) == Append(d, <<k, v>>)

\* d[k] = v
DictSet(d, k, v) ==
    IF k \in DictKeys(d)
    THEN [i \in 1..Len(d) |-> IF d[i][1] = k THEN <<k, v>> ELSE d[i]]
    ELSE Append(d, <<k, v>>)

-----------------------------------------------------------------------------
(* Values the variables of the other components hold while one component   *)
(* is exercised on its own.                                                *)

NoSettings == [export_directory |-> <<>>, base_url |-> <<>>]

HostIdle ==
    /\ selected = {} /\ active = None /\ mode = "OBJECT"
    /\ old_selected = {} /\ old_active = None /\ old_mode = None

BuilderIdle ==
    /\ objects = <<>> /\ mesh_objects = <<>> /\ light_objects = <<>>
    /\ all_materials = <<>> /\ images = <<>> /\ idx = 0
    /\ textures_dict = <<>> /\ materials_dict = <<>> /\ meshes_dict = <<>>
    /\ files = {} /\ outcome = <<>> /\ log = <<>> /\ doc = <<>>
    /\ run = 1 /\ prevDoc = <<>>

builderVars == <<objects, settings, mesh_objects, light_objects, all_materials,
                 images, idx, textures_dict, materials_dict, meshes_dict,
                 files, outcome, log, doc, run, prevDoc>>
hostVars == <<selected, active, mode, old_selected, old_active, old_mode>>

-----------------------------------------------------------------------------
(* build_asset_uri on its own: the inputs *)

UriOses == {"posix", "nt"}

UriRoots(os) ==
    IF os = "nt"
    THEN {<<"C", ":", "\\", "o", "u", "t">>,
          <<"C", ":", "\\", "o", "u", "t", "\\">>,
          <<"o", "u", "t">>}
    ELSE {<<"/", "o", "u", "t">>,
          <<"/", "o", "u", "t", "/">>,
          <<"o", "u", "t">>}

\* where the file lives: under the export root, or on another volume
UriElsewhere(os) ==
    IF os = "nt" THEN <<"D", ":", "\\", "t", "m", "p">>
    ELSE <<"/", "t", "m", "p">>

UriComps ==
    {<< <<"m", "e", "s", "h", "e", "s">>, <<"c", "u", "b", "e", ".", "o", "b", "j">> >>,
     << <<"m", "e", "s", "h", "e", "s">>, <<"a", "_", "b", ".", "m", "t", "l">> >>,
     << <<"c", "u", "b", "e", ".", "o", "b", "j">> >>}

UrlXioA == <<"h", "t", "t", "p", "s", ":", "/", "/", "x", ".", "i", "o", "/", "a">>

UriBases ==
    {<<>>, UrlXioA, UrlXioA \o <<"/">>, UrlXioA \o <<"/", "/">>, <<"/">>}

UriInit ==
    /\ osname \in UriOses
    /\ \E root \in UriRoots(osname), comps \in UriComps,
          base \in UriBases, under \in BOOLEAN :
          call = [fn |-> "build_asset_uri",
                  filepath   |-> PathJoin(osname,
                                    IF under THEN root ELSE UriElsewhere(osname),
                                    JoinWith(comps, <<Sep(osname)>>)),
                  base_url   |-> base,
                  export_dir |-> root,
                  comps      |-> comps,
                  under      |-> under]
    /\ result = None
    /\ pc = "uri_call"
    /\ settings = NoSettings
    /\ BuilderIdle /\ HostIdle

CallBuildAssetUri ==
    /\ pc = "uri_call"
    /\ result' = build_asset_uri(osname, call.filepath, call.base_url,
                                 call.export_dir)
    /\ pc' = "uri_done"
    /\ UNCHANGED <<osname, call, builderVars, hostVars>>

UriNext == CallBuildAssetUri

SpecUri == UriInit /\ [][UriNext]_vars

-----------------------------------------------------------------------------
(* sanitize_filename on its own, applied to a string and then to its result *)

\* the longest name handed to sanitize_filename
MaxLen == 3

SanChars == {"a", "_", ":", "/", ".", " "}

SanNames == UNION {[1..n -> SanChars] : n \in 0..MaxLen}

SanInit ==
    /\ osname = "posix"
    /\ \E x \in SanNames :
          call = [fn |-> "sanitize_filename", name |-> x, first |-> x]
    /\ result = None
    /\ pc = "san_call"
    /\ settings = NoSettings
    /\ BuilderIdle /\ HostIdle

\* sanitize_filename(x)
CallSanitize ==
    /\ pc = "san_call"
    /\ result' = sanitize_filename(call.name)
    /\ pc' = "san_once"
    /\ UNCHANGED <<osname, call, builderVars, hostVars>>

\* sanitize_filename(sanitize_filename(x)): the argument is the first result
CallSanitizeAgain ==
    /\ pc = "san_once"
    /\ call' = [call EXCEPT !.name = result]
    /\ result' = sanitize_filename(result)
    /\ pc' = "san_twice"
    /\ UNCHANGED <<osname, builderVars, hostVars>>

SanNext == CallSanitize \/ CallSanitizeAgain

SpecSanitize == SanInit /\ [][SanNext]_vars

-----------------------------------------------------------------------------
(* build_scene_json, step by step *)

Str_meshes == <<"m", "e", "s", "h", "e", "s">>
Ext_obj == <<".", "o", "b", "j">>
Ext_mtl == <<".", "m", "t", "l">>
Ext_png == <<".", "p", "n", "g">>
Ext_jpg == <<".", "j", "p", "g">>
Ext_jpeg == <<".", "j", "p", "e", "g">>
Ext_tga == <<".", "t", "g", "a">>

\* scene_builder.py:88-89: meshes and textures share one directory
meshes_dir == PathJoin(osname, settings.export_directory, Str_meshes)
textures_dir == PathJoin(osname, settings.export_directory, Str_meshes)

\* scene_builder.py:99-105: the materials of the mesh objects, as a set
MaterialSet(meshes) ==
    {m \in DOMAIN Materials :
        \E i \in 1..Len(meshes) :
            \E k \in 1..Len(SceneObjects[meshes[i]].materials) :
                SceneObjects[meshes[i]].materials[k] = m}

\* the external calls answer the same way for the same item in a later run
Answers(item, choices) ==
    IF item \in DOMAIN outcome THEN {outcome[item]} ELSE choices

Record(item, oc) ==
    IF item \in DOMAIN outcome THEN outcome ELSE (item :> oc) @@ outcome

\* the exporter that runs when the mesh exporter should (a wrong order)
PhaseAfter_MaterialsFirst(p) ==
    CASE p = "collect" -> "materials"
      [] p = "materials" -> "textures"
      [] p = "textures" -> "meshes"
      [] p = "meshes" -> "assets"

\* scene_builder.py:108-136: the order of the steps of build_scene_json
PhaseAfter(p) ==
    CASE p = "collect" -> "textures"
      [] p = "textures" -> "materials"
      [] p = "materials" -> "meshes"
      [] p = "meshes" -> "assets"

\* scene_builder.py:83-106
Collect ==
    /\ pc = "collect"
    /\ mesh_objects' = FilterType(objects, "MESH")
    /\ light_objects' = FilterType(objects, "LIGHT")
    /\ all_materials' \in ListOfSet(MaterialSet(mesh_objects'))
    /\ pc' = PhaseAfter("collect")
    /\ UNCHANGED <<osname, objects, settings, images, idx, textures_dict,
                   materials_dict, meshes_dict, files, outcome, log, doc, run,
                   prevDoc, call, result, hostVars>>

-----------------------------------------------------------------------------
(* texture_exporter *)

\* the node a link of input `name` comes from, or None
FromNode(mat, node, name) ==
    IF name \in DOMAIN node.links
    THEN Materials[mat].nodes[node.links[name]] ELSE NoneObj

\* texture_exporter.py:104-112: the images one node contributes
NodeImages(mat, node) ==
    IF node.type = "TEX_IMAGE" /\ node.image # None THEN {node.image}
    ELSE IF node.type = "BSDF_PRINCIPLED"
    THEN LET input_node == FromNode(mat, node, "Base Color") IN
         IF input_node # NoneObj /\ input_node.type = "TEX_IMAGE"
            /\ input_node.image # None
         THEN {input_node.image} ELSE {}
    ELSE {}

\* texture_exporter.py:98-112: the images of one material
MaterialImages(mat) ==
    IF mat = None \/ ~Materials[mat].use_nodes THEN {}
    ELSE UNION {NodeImages(mat, Materials[mat].nodes[k]) :
                   k \in 1..Len(Materials[mat].nodes)}

\* collect_textures_from_materials, texture_exporter.py:96-114: the set
collect_textures_from_materials(materials) ==
    UNION {MaterialImages(materials[i]) : i \in 1..Len(materials)}

\* a list with one entry for every material that references an image
RECURSIVE ImagesPerMaterial(_)
ImagesPerMaterial(materials) ==
    IF materials = <<>> THEN <<>>
    ELSE (CHOOSE l \in ListOfSet(MaterialImages(Head(materials))) : TRUE)
         \o ImagesPerMaterial(Tail(materials))

ImageLists_PerMaterial(materials) == {ImagesPerMaterial(materials)}

\* texture_exporter.py:114: list(images), in an order the set decides
ImageLists(materials) ==
    ListOfSet(collect_textures_from_materials(materials))

\* export_texture's file path, texture_exporter.py:42-67
TextureExt(target_format) ==
    CASE target_format = "PNG" -> Ext_png
      [] target_format \in {"JPG", "JPEG"} -> Ext_jpg
      [] target_format = "TGA" -> Ext_tga
      [] OTHER -> Ext_png

Str_RenderResult ==
    <<"R", "e", "n", "d", "e", "r", " ", "R", "e", "s", "u", "l", "t">>
Str_texture == <<"t", "e", "x", "t", "u", "r", "e">>

TexturePath(img, output_path, target_format) ==
    LET name0 == Images[img].name
        image_name == IF name0 = <<>> \/ name0 = Str_RenderResult
                      THEN Str_texture ELSE name0
        base_name == SplitExtRoot(image_name)
    IN  PathJoin(osname, output_path,
                 sanitize_filename(base_name) \o TextureExt(target_format))

\* scene_builder.py:108-115 and texture_exporter.py:127-130
EnterTextures ==
    /\ pc = "textures"
    /\ IF settings.export_textures /\ all_materials # <<>>
       THEN /\ images' \in ImageLists(all_materials)
            /\ idx' = 1
            /\ pc' = "tex_loop"
       ELSE /\ pc' = PhaseAfter("textures")
            /\ UNCHANGED <<images, idx>>
    /\ UNCHANGED <<osname, objects, settings, mesh_objects, light_objects,
                   all_materials, textures_dict, materials_dict, meshes_dict,
                   files, outcome, log, doc, run, prevDoc, call, result,
                   hostVars>>

\* one turn of the loop texture_exporter.py:133-138 around export_texture
ExportTexture ==
    /\ pc = "tex_loop" /\ idx <= Len(images)
    /\ LET image == images[idx]
           filepath == TexturePath(image, textures_dir, "PNG")
       IN  \E oc \in Answers(image, {"ok", "raise"}) :
             /\ outcome' = Record(image, oc)
             /\ log' = Append(log, <<"texture", image>>)
             /\ IF oc = "ok"
                THEN /\ files' = files \cup {filepath}
                     /\ textures_dict' =
                          DictSet(textures_dict,
                                  sanitize_filename(Images[image].name), filepath)
                ELSE UNCHANGED <<files, textures_dict>>
    /\ idx' = idx + 1
    /\ UNCHANGED <<osname, objects, settings, pc, mesh_objects, light_objects,
                   all_materials, images, materials_dict, meshes_dict, doc,
                   run, prevDoc, call, result, hostVars>>

\* texture_exporter.py:140: export_all_textures returns
TexturesDone ==
    /\ pc = "tex_loop" /\ idx > Len(images)
    /\ pc' = PhaseAfter("textures")
    /\ UNCHANGED <<osname, objects, settings, mesh_objects, light_objects,
                   all_materials, images, idx, textures_dict, materials_dict,
                   meshes_dict, files, outcome, log, doc, run, prevDoc, call,
                   result, hostVars>>

-----------------------------------------------------------------------------
(* material_exporter *)

\* material_exporter.py:279-281
MaterialPath(mat, output_path) ==
    PathJoin(osname, output_path,
             sanitize_filename(Materials[mat].name) \o Ext_mtl)

\* links[0].from_node of an input, when that is an image node with an image
LinkedImage(mat, node, name) ==
    LET input_node == FromNode(mat, node, name) IN
    IF input_node # NoneObj /\ input_node.type = "TEX_IMAGE"
       /\ input_node.image # None
    THEN input_node.image ELSE None

\* the value the first node that returns one returns
FirstFound(vals) ==
    IF \E i \in 1..Len(vals) : vals[i] # None
    THEN vals[CHOOSE i \in 1..Len(vals) :
                 vals[i] # None /\ \A j \in 1..(i - 1) : vals[j] = None]
    ELSE None

\* material.node_tree.nodes, not looked at when use_nodes is off
NodesOf(mat) == IF Materials[mat].use_nodes THEN Materials[mat].nodes ELSE <<>>

\* `sub in s`
Contains(s, sub) ==
    \E i \in 1..(Len(s) - Len(sub) + 1) : SubSeq(s, i, i + Len(sub) - 1) = sub

\* the get_*_texture functions give the image whose sanitized name the
\* code returns, or None

\* material_exporter.py:96-128
get_diffuse_texture(mat) ==
    FirstFound([k \in 1..Len(NodesOf(mat)) |->
        LET node == NodesOf(mat)[k] IN
        CASE node.type = "BSDF_PRINCIPLED" -> LinkedImage(mat, node, "Base Color")
          [] node.type = "BSDF_DIFFUSE" -> LinkedImage(mat, node, "Color")
          [] node.type = "TEX_IMAGE" -> node.image
          [] OTHER -> None])

\* material_exporter.py:130-145
get_metallic_texture(mat) ==
    FirstFound([k \in 1..Len(NodesOf(mat)) |->
        LET node == NodesOf(mat)[k] IN
        IF node.type = "BSDF_PRINCIPLED"
        THEN LinkedImage(mat, node, "Metallic") ELSE None])

\* material_exporter.py:147-169
get_normal_texture(mat) ==
    FirstFound([k \in 1..Len(NodesOf(mat)) |->
        LET node == NodesOf(mat)[k]
            input_node == FromNode(mat, node, "Normal")
        IN  IF node.type # "BSDF_PRINCIPLED" \/ input_node = NoneObj THEN None
            ELSE IF input_node.type = "NORMAL_MAP"
            THEN LinkedImage(mat, input_node, "Color")
            ELSE LinkedImage(mat, node, "Normal")])

\* material_exporter.py:171-186
get_height_texture(mat) ==
    FirstFound([k \in 1..Len(NodesOf(mat)) |->
        LET node == NodesOf(mat)[k] IN
        IF node.type = "DISPLACEMENT"
        THEN LinkedImage(mat, node, "Height") ELSE None])

Str_ao == <<"a", "o">>
Str_occlusion == <<"o", "c", "c", "l", "u", "s", "i", "o", "n">>

\* material_exporter.py:188-202
get_ao_texture(mat) ==
    FirstFound([k \in 1..Len(NodesOf(mat)) |->
        LET node == NodesOf(mat)[k] IN
        IF node.type = "TEX_IMAGE" /\ node.image # None
           /\ LET name_lower == Lower(Images[node.image].name) IN
                  Contains(name_lower, Str_ao)
                  \/ Contains(name_lower, Str_occlusion)
        THEN node.image ELSE None])

\* material_exporter.py:204-219
get_roughness_texture(mat) ==
    FirstFound([k \in 1..Len(NodesOf(mat)) |->
        LET node == NodesOf(mat)[k] IN
        IF node.type = "BSDF_PRINCIPLED"
        THEN LinkedImage(mat, node, "Roughness") ELSE None])

\* the reference written as the whole path of the texture
TextureFilename_FullPath(texture_path) == texture_path

\* material_exporter.py:328 and 343
TextureFilename(texture_path) == Basename(osname, texture_path)

\* one map line of the file, or none: material_exporter.py:322-329 and
\* 340-344; a line is <<key, file name>>
MapLine(img, mtl_key, td) ==
    IF img = None THEN <<>>
    ELSE LET map_name == sanitize_filename(Images[img].name)
             texture_path == DictGet(td, map_name)
         IN  IF map_name = <<>> \/ texture_path = <<>> THEN <<>>
             ELSE << <<mtl_key, TextureFilename(texture_path)>> >>

\* material_exporter.py:333-344
PbrMapLines(mat, td) ==
    MapLine(get_metallic_texture(mat), "map_Pm", td)
    \o MapLine(get_normal_texture(mat), "norm", td)
    \o MapLine(get_ao_texture(mat), "map_Ka", td)
    \o MapLine(get_height_texture(mat), "map_disp", td)
    \o MapLine(get_roughness_texture(mat), "map_Pr", td)

\* the map lines export_material_to_mtl writes, material_exporter.py:319-344
MtlMapLines(mat, td, pbr) ==
    MapLine(get_diffuse_texture(mat), "map_Kd", td)
    \o (IF pbr THEN PbrMapLines(mat, td) ELSE <<>>)

\* build_scene_json does not pass export_pbr_maps (scene_builder.py:120-125):
\* export_all_materials runs with its default, material_exporter.py:350
export_pbr_maps == TRUE

\* scene_builder.py:117-125
EnterMaterials ==
    /\ pc = "materials"
    /\ IF settings.export_materials /\ all_materials # <<>>
       THEN idx' = 1 /\ pc' = "mat_loop"
       ELSE pc' = PhaseAfter("materials") /\ UNCHANGED idx
    /\ UNCHANGED <<osname, objects, settings, mesh_objects, light_objects,
                   all_materials, images, textures_dict, materials_dict,
                   meshes_dict, files, outcome, log, doc, run, prevDoc, call,
                   result, hostVars>>

\* one turn of the loop material_exporter.py:365-370 around
\* export_material_to_mtl; the event records the texture map it was given
\* and the map lines of the file it wrote
ExportMaterial ==
    /\ pc = "mat_loop" /\ idx <= Len(all_materials)
    /\ LET material == all_materials[idx]
           filepath == MaterialPath(material, meshes_dir)
       IN  \E oc \in Answers(material, {"ok", "raise"}) :
             /\ outcome' = Record(material, oc)
             /\ log' = Append(log,
                   <<"material", material, textures_dict,
                     IF oc = "ok"
                     THEN MtlMapLines(material, textures_dict, export_pbr_maps)
                     ELSE <<>> >>)
             /\ IF oc = "ok"
                THEN /\ files' = files \cup {filepath}
                     /\ materials_dict' =
                          DictSet(materials_dict,
                                  sanitize_filename(Materials[material].name),
                                  filepath)
                ELSE UNCHANGED <<files, materials_dict>>
    /\ idx' = idx + 1
    /\ UNCHANGED <<osname, objects, settings, pc, mesh_objects, light_objects,
                   all_materials, images, textures_dict, meshes_dict, doc,
                   run, prevDoc, call, result, hostVars>>

\* material_exporter.py:372: export_all_materials returns
MaterialsDone ==
    /\ pc = "mat_loop" /\ idx > Len(all_materials)
    /\ pc' = PhaseAfter("materials")
    /\ UNCHANGED <<osname, objects, settings, mesh_objects, light_objects,
                   all_materials, images, idx, textures_dict, materials_dict,
                   meshes_dict, files, outcome, log, doc, run, prevDoc, call,
                   result, hostVars>>

-----------------------------------------------------------------------------
(* mesh_exporter.export_all_meshes; its `objects` argument is mesh_objects *)

\* mesh_exporter.py:84 and 104-106
MeshPath(obj, output_path) ==
    PathJoin(osname, AbsPath(osname, output_path),
             sanitize_filename(SceneObjects[obj].name) \o Ext_obj)

\* where export_all_meshes returns to
AfterMeshes ==
    IF call.fn = "export_all_meshes" THEN "mesh_returned"
    ELSE PhaseAfter("meshes")

\* the mesh exporter run whatever the export_meshes setting says
MeshesWanted_IgnoringSetting == mesh_objects # <<>>

\* scene_builder.py:129
MeshesWanted == settings.export_meshes /\ mesh_objects # <<>>

\* scene_builder.py:127-134
EnterMeshes ==
    /\ pc = "meshes"
    /\ IF MeshesWanted
       THEN pc' = "mesh_save"
       ELSE pc' = PhaseAfter("meshes")
    /\ UNCHANGED <<osname, objects, settings, mesh_objects, light_objects,
                   all_materials, images, idx, textures_dict, materials_dict,
                   meshes_dict, files, outcome, log, doc, run, prevDoc, call,
                   result, hostVars>>

\* the mode not looked at
SavedMode_Unread == None

\* the mode saved at mesh_exporter.py:88
SavedMode == IF active # None THEN mode ELSE None

\* mesh_exporter.py:81-93
SaveSelection ==
    /\ pc = "mesh_save"
    /\ meshes_dict' = <<>>
    /\ old_active' = active
    /\ old_selected' = selected
    /\ old_mode' = SavedMode
    /\ mode' = IF old_mode' # None /\ old_mode' # "OBJECT" THEN "OBJECT" ELSE mode
    /\ idx' = 1
    /\ pc' = "mesh_loop"
    /\ UNCHANGED <<osname, objects, settings, mesh_objects, light_objects,
                   all_materials, images, textures_dict, materials_dict, files,
                   selected, active, outcome, log, doc, run, prevDoc, call,
                   result>>

\* what the geometry exporter and the host can answer for one mesh object:
\* the file is written; the call raises; the call returns without a file;
\* the object is not in the view layer, so select_set raises
MeshAnswers == {"ok", "raise", "nofile", "unselectable"}

\* the selection with the object added to it, nothing deselected
SelectedForExport_Added(obj) == selected \cup {obj}

\* mesh_exporter.py:97-100: deselect all, then select the object
SelectedForExport(obj) == {obj}

\* mesh_exporter.py:124-128: the map after one export call
MeshRecorded(d, obj, filepath, oc, disk) ==
    IF oc # "raise" /\ filepath \in disk
    THEN DictSet(d, sanitize_filename(SceneObjects[obj].name), filepath)
    ELSE d

\* one turn of the loop mesh_exporter.py:95-133
ExportMesh ==
    /\ pc = "mesh_loop" /\ idx <= Len(mesh_objects)
    /\ LET obj == mesh_objects[idx]
           filepath == MeshPath(obj, meshes_dir)
       IN  IF SceneObjects[obj].type # "MESH"
           THEN /\ idx' = idx + 1
                /\ UNCHANGED <<pc, selected, active, files, meshes_dict,
                               outcome, log>>
           ELSE \E oc \in Answers(obj, MeshAnswers) :
                  /\ outcome' = Record(obj, oc)
                  /\ IF oc = "unselectable"
                     THEN \* select_set raises: mesh_exporter.py:135-137
                          /\ selected' = {}
                          /\ pc' = "mesh_finally"
                          /\ UNCHANGED <<active, files, meshes_dict, log, idx>>
                     ELSE /\ selected' = SelectedForExport(obj)
                          /\ active' = obj
                          /\ log' = Append(log, <<"mesh", obj, selected', active', mode>>)
                          /\ files' = IF oc = "ok" THEN files \cup {filepath}
                                      ELSE files
                          /\ meshes_dict' =
                               MeshRecorded(meshes_dict, obj, filepath, oc, files')
                          /\ idx' = idx + 1
                          /\ UNCHANGED pc
    /\ UNCHANGED <<osname, objects, settings, mesh_objects, light_objects,
                   all_materials, images, textures_dict, materials_dict, mode,
                   old_selected, old_active, old_mode, doc, run, prevDoc, call,
                   result>>

\* the loop mesh_exporter.py:95 ends
MeshLoopDone ==
    /\ pc = "mesh_loop" /\ idx > Len(mesh_objects)
    /\ pc' = "mesh_finally"
    /\ UNCHANGED <<osname, objects, settings, mesh_objects, light_objects,
                   all_materials, images, idx, textures_dict, materials_dict,
                   meshes_dict, files, outcome, log, doc, run, prevDoc, call,
                   result, hostVars>>

\* mesh_exporter.py:147-150: the active object after the finally block
RestoredActive == IF old_active # None THEN old_active ELSE active

\* mesh_exporter.py:139-157
RestoreSelection ==
    /\ pc = "mesh_finally"
    /\ selected' = old_selected
    /\ active' = RestoredActive
    /\ mode' = IF old_mode # None /\ old_mode # "OBJECT" THEN old_mode ELSE mode
    /\ pc' = AfterMeshes
    /\ UNCHANGED <<osname, objects, settings, mesh_objects, light_objects,
                   all_materials, images, idx, textures_dict, materials_dict,
                   meshes_dict, files, old_selected, old_active, old_mode,
                   outcome, log, doc, run, prevDoc, call, result>>

-----------------------------------------------------------------------------
(* transforms and lights *)

\* the world matrix of an object of the host, Z up: its translation part
matrix_world(obj) == [translation |-> <<1, 2, 3>>]

\* blender_plugin/exporter/transform_utils.py:30-34: the matrix that takes
\* forward Y, up Z to forward -Z, up Y, applied from the left
axis_conversion(m) ==
    [translation |->
        <<m.translation[1], m.translation[3], -m.translation[2]>>]

\* blender_plugin/exporter/transform_utils.py:22-52 and 122-134
get_object_transform_yup(obj) ==
    [of |-> obj, space |-> "y_up",
     position |-> axis_conversion(matrix_world(obj)).translation]

\* transform_utils.get_object_transform of the tree scene_builder imports:
\* position, rotation and scale decomposed from the world matrix as it is
get_object_transform(obj) ==
    [of |-> obj, space |-> "world",
     position |-> matrix_world(obj).translation]

\* an area light taken for a spot light
LightTypeMap_AreaAsSpot(light_type) ==
    CASE light_type = "POINT" -> "pointLight"
      [] light_type = "SUN" -> "directionalLight"
      [] OTHER -> "spotLight"

\* light_exporter.py:36-43
LightTypeMap(light_type) ==
    CASE light_type = "POINT" -> "pointLight"
      [] light_type = "SUN" -> "directionalLight"
      [] light_type = "SPOT" -> "spotLight"
      [] light_type = "AREA" -> "pointLight"
      [] OTHER -> "pointLight"

\* light_exporter.py:157
LightId(name) == ReplaceChar(ReplaceChar(name, " ", "_"), ".", "_")

Max(a, b) == IF a >= b THEN a ELSE b
Min(a, b) == IF a <= b THEN a ELSE b

hasattr(light_data, name) == name \in light_data.attrs

\* the energy passed on as it is
Intensity_NoFloor(light_type, energy) ==
    IF light_type = "SUN" THEN energy ELSE energy * 10

\* light_exporter.py:58-63, in thousandths: max(0.1, energy / 10.0) for a
\* sun, max(0.1, energy) otherwise, energy being in hundredths
Intensity(light_type, energy) ==
    IF light_type = "SUN" THEN Max(100, energy) ELSE Max(100, energy * 10)

\* light_exporter.py:69-74, in thousandths
LightRange(light_data) ==
    IF hasattr(light_data, "distance")
    THEN Max(100, light_data.distance * 10) ELSE 25000

\* light_exporter.py:80-100, in thousandths
Attenuation(light_data) ==
    IF hasattr(light_data, "falloff_type")
       /\ light_data.falloff_type = "INVERSE_LINEAR"
    THEN [constant |-> 1000, linear |-> 100, quadratic |-> 0]
    ELSE IF hasattr(light_data, "falloff_type")
            /\ light_data.falloff_type = "INVERSE_SQUARE"
    THEN [constant |-> 1000, linear |-> 0, quadratic |-> 100]
    ELSE [constant |-> 1000, linear |-> 90, quadratic |-> 32]

\* math.degrees of an angle given in steps of pi/36 radians
Degrees(spot_size) == spot_size * 5

\* an angle with the lower limit only
SpotAngle_NoUpperLimit(tenths) == Max(0, tenths)

\* light_exporter.py:126-127: max(0.0, min(90.0, x)), in tenths of a degree
SpotAngle(tenths) == Max(0, Min(900, tenths))

\* light_exporter.py:118-127, in tenths of a degree
Cutoff(light_data) == SpotAngle(Degrees(light_data.spot_size) * 10)
OuterCutoff(light_data) ==
    SpotAngle(Degrees(light_data.spot_size) * (10 + light_data.spot_blend))

\* light_exporter.py:130-153, bias and ortho size in hundredths
ShadowProps(light_data) ==
    IF ~hasattr(light_data, "use_shadow") THEN <<>>
    ELSE ("shadowEnabled" :> light_data.use_shadow)
         @@ (IF ~light_data.use_shadow THEN <<>>
             ELSE ("shadowBias" :>
                      (IF hasattr(light_data, "shadow_buffer_bias")
                       THEN Max(0, light_data.shadow_buffer_bias) ELSE 1))
                  @@ ("shadowMapResolution" :> 2048)
                  @@ (IF light_data.type # "SUN" THEN <<>>
                      ELSE "shadowOrthoSize" :>
                             (IF hasattr(light_data, "shadow_buffer_clip_start")
                                 /\ hasattr(light_data, "shadow_buffer_clip_end")
                              THEN Max(100, light_data.shadow_buffer_clip_end
                                            - light_data.shadow_buffer_clip_start)
                              ELSE 10000)))

\* the light kinds that get range and attenuation, light_exporter.py:69, 77
HasRange(light_type) == light_type \in {"POINT", "SPOT", "AREA"}
\* the light kinds that get a direction, light_exporter.py:103
HasDirection(light_type) == light_type \in {"SUN", "SPOT"}

\* light_props, light_exporter.py:46-153; color and direction are read
\* from the host and passed on
LightProps(blender_light) ==
    LET light_data == blender_light.light
        light_type == light_data.type
    IN  ("color" :> [of |-> blender_light.name])
        @@ ("intensity" :> Intensity(light_type, light_data.energy))
        @@ ("enabled" :> ~blender_light.hide_viewport)
        @@ (IF HasRange(light_type)
            THEN ("range" :> LightRange(light_data))
                 @@ ("attenuation" :> Attenuation(light_data))
            ELSE <<>>)
        @@ (IF HasDirection(light_type)
            THEN "direction" :> [of |-> blender_light.name, axis |-> "-Z"]
            ELSE <<>>)
        @@ (IF light_type = "SPOT"
            THEN ("cutoff" :> Cutoff(light_data))
                 @@ ("outerCutoff" :> OuterCutoff(light_data))
            ELSE <<>>)
        @@ ShadowProps(light_data)

\* export_light_instance for an object of the host, light_exporter.py:9-165
LightInstance(blender_light, transform) ==
    IF blender_light.type # "LIGHT" THEN NoneObj
    ELSE IF blender_light.light.type = "None" THEN NoneObj
    ELSE [id |-> LightId(blender_light.name),
          type |-> LightTypeMap(blender_light.light.type),
          transform |-> transform,
          light |-> LightProps(blender_light)]

\* export_light_instance, light_exporter.py:19-33 and 155-165
export_light_instance(obj) ==
    IF obj = None THEN NoneObj
    ELSE LightInstance(SceneObjects[obj], get_object_transform(obj))

\* export_all_lights, light_exporter.py:176-184
RECURSIVE export_all_lights(_)
export_all_lights(objs) ==
    IF objs = <<>> THEN <<>>
    ELSE LET light_instance ==
                 IF SceneObjects[Head(objs)].type = "LIGHT"
                 THEN export_light_instance(Head(objs)) ELSE NoneObj
         IN  (IF light_instance.type # "None" THEN <<light_instance>> ELSE <<>>)
             \o export_all_lights(Tail(objs))

-----------------------------------------------------------------------------
(* the assets, the instances and the document *)

Uri(filepath) ==
    build_asset_uri(osname, filepath, settings.base_url,
                    settings.export_directory)

\* scene_builder.py:139-146
ModelAssets(d) ==
    [i \in 1..Len(d) |->
        [id |-> d[i][1], type |-> "model", uri |-> Uri(d[i][2]),
         mediaType |-> "model/obj"]]

\* scene_builder.py:148-155
MaterialAssets(d) ==
    [i \in 1..Len(d) |->
        [id |-> d[i][1], type |-> "material", uri |-> Uri(d[i][2]),
         mediaType |-> "model/mtl"]]

\* scene_builder.py:160-167
MediaType(filepath) ==
    LET ext == Lower(SplitExtExt(Basename(osname, filepath))) IN
    CASE ext = Ext_png -> "image/png"
      [] ext = Ext_jpg -> "image/jpeg"
      [] ext = Ext_jpeg -> "image/jpeg"
      [] ext = Ext_tga -> "image/tga"
      [] OTHER -> "image/png"

\* scene_builder.py:157-174
TextureAssets(d) ==
    [i \in 1..Len(d) |->
        [id |-> d[i][1], type |-> "texture", uri |-> Uri(d[i][2]),
         mediaType |-> MediaType(d[i][2])]]

\* the asset groups in another order
BuildAssets_MaterialsFirst(meshes, materials, textures) ==
    MaterialAssets(materials) \o ModelAssets(meshes) \o TextureAssets(textures)

\* scene_builder.py:136-174
BuildAssets(meshes, materials, textures) ==
    ModelAssets(meshes) \o MaterialAssets(materials) \o TextureAssets(textures)

\* an instance for every mesh object, exported or not
WasExported_Always(obj, meshes) == TRUE

\* scene_builder.py:181-183: is a model instance emitted for this object
WasExported(obj, meshes) ==
    sanitize_filename(SceneObjects[obj].name) \in DictKeys(meshes)

\* scene_builder.py:184-194
ModelInstance(obj) ==
    LET asset_id == sanitize_filename(SceneObjects[obj].name) IN
    [id |-> asset_id, type |-> "model", asset |-> asset_id,
     transform |-> get_object_transform(obj)]

\* scene_builder.py:179-196
RECURSIVE ModelInstances(_, _)
ModelInstances(objs, meshes) ==
    IF objs = <<>> THEN <<>>
    ELSE (IF WasExported(Head(objs), meshes)
          THEN <<ModelInstance(Head(objs))>> ELSE <<>>)
         \o ModelInstances(Tail(objs), meshes)

\* scene_builder.py:176-200
BuildInstances(meshObjs, lightObjs, meshes) ==
    ModelInstances(meshObjs, meshes) \o export_all_lights(lightObjs)

\* the key written whatever its value
Optional_Always(key, value) == key :> value

\* an optional key, present when its value is non-empty
Optional(key, value) == IF value # <<>> THEN key :> value ELSE <<>>

\* the derived id left in the case of the name
SceneId_CaseKept(st) ==
    IF st.scene_id # <<>> THEN st.scene_id
    ELSE sanitize_filename(st.scene_name)

\* scene_builder.py:214-218
SceneId(st) ==
    IF st.scene_id # <<>> THEN st.scene_id
    ELSE Lower(sanitize_filename(st.scene_name))

\* the key written even for an empty list
InstancesEntry_Always(instances) == "instances" :> instances

\* scene_builder.py:229-231
InstancesEntry(instances) ==
    IF instances # <<>> THEN "instances" :> instances ELSE <<>>

\* scene_builder.py:202-233
BuildDocument(st, assets, instances) ==
    ("name" :> st.scene_name) @@ ("version" :> st.scene_version)
    @@ ("schemaVersion" :> st.schema_version) @@ ("assets" :> assets)
    @@ Optional("description", st.scene_description)
    @@ ("id" :> SceneId(st))
    @@ Optional("author", st.scene_author)
    @@ Optional("rating", st.scene_rating)
    @@ Optional("thumbnail", st.thumbnail_url)
    @@ InstancesEntry(instances)

\* scene_builder.py:136-233
Assemble ==
    /\ pc = "assets"
    /\ doc' = BuildDocument(settings,
                  BuildAssets(meshes_dict, materials_dict, textures_dict),
                  BuildInstances(mesh_objects, light_objects, meshes_dict))
    /\ pc' = "done"
    /\ UNCHANGED <<osname, objects, settings, mesh_objects, light_objects,
                   all_materials, images, idx, textures_dict, materials_dict,
                   meshes_dict, files, outcome, log, run, prevDoc, call,
                   result, hostVars>>

-----------------------------------------------------------------------------
(* export_light_instance on its own, for every kind of light               *)

LightKinds == {"POINT", "SUN", "SPOT", "AREA"}
\* hundredths: -5, 0, 0.05 and 20
LightEnergies == {-500, 0, 5, 2000}
\* steps of 5 degrees: -5, 0, 45, 100 and 180 degrees
SpotSizes == {-1, 0, 9, 20, 36}
\* tenths: -0.5, 0, 0.5 and 1.5
SpotBlends == {-5, 0, 5, 15}
LightAttrs ==
    {{}, {"use_shadow"},
     {"use_shadow", "distance", "falloff_type", "shadow_buffer_bias",
      "shadow_buffer_clip_start", "shadow_buffer_clip_end"}}

LightDatas ==
    {[type |-> t, energy |-> e, spot_size |-> z, spot_blend |-> b,
      use_shadow |-> u, distance |-> d, falloff_type |-> f,
      shadow_buffer_bias |-> 100, shadow_buffer_clip_start |-> 10,
      shadow_buffer_clip_end |-> 5010, attrs |-> a] :
        t \in LightKinds, e \in LightEnergies, z \in SpotSizes,
        b \in SpotBlends, u \in BOOLEAN, d \in {0, 4000},
        f \in {"INVERSE_LINEAR", "INVERSE_SQUARE", "CONSTANT"},
        a \in LightAttrs}

\* object names as the host allows them: "L 1" and "Key:2.1"
LightNames ==
    {<<"L", " ", "1">>, <<"K", "e", "y", ":", "2", ".", "1">>}

\* the objects handed to export_light_instance: lights, a light object
\* without data, and an object that is no light
LightObjects ==
    {[type |-> "LIGHT", name |-> n, materials |-> <<>>,
      light |-> ld, hide_viewport |-> h] :
        n \in LightNames, ld \in LightDatas \cup {NoneObj}, h \in BOOLEAN}
    \cup {SceneObjects["oCube"]}

LightInit ==
    /\ osname = "posix"
    /\ \E o \in LightObjects :
          call = [fn |-> "export_light_instance", blender_light |-> o]
    /\ result = None
    /\ pc = "light_call"
    /\ settings = NoSettings
    /\ BuilderIdle /\ HostIdle

\* export_light_instance(blender_light), the transform taken from the object
CallExportLight ==
    /\ pc = "light_call"
    /\ result' = LightInstance(call.blender_light,
                               [of |-> call.blender_light.name,
                                space |-> "world"])
    /\ pc' = "light_done"
    /\ UNCHANGED <<osname, call, builderVars, hostVars>>

LightNext == CallExportLight

SpecLight == LightInit /\ [][LightNext]_vars

-----------------------------------------------------------------------------
(* roughness_to_shininess on its own; roughness in hundredths, the         *)
(* shininess in units                                                      *)

\* a shininess that grows with the roughness
roughness_to_shininess_Rising(roughness) == (roughness * 1000) \div 100

\* material_exporter.py:232: (1.0 - roughness) * 1000.0
roughness_to_shininess(roughness) == ((100 - roughness) * 1000) \div 100

\* the roughness values of the range [0, 1]
Roughnesses == 0..100

\* two calls, to compare their results
ShininessInit ==
    /\ osname = "posix"
    /\ \E r \in Roughnesses, q \in Roughnesses :
          call = [fn |-> "roughness_to_shininess", roughness |-> r,
                  other |-> q]
    /\ result = None
    /\ pc = "shininess_call"
    /\ settings = NoSettings
    /\ BuilderIdle /\ HostIdle

CallShininess ==
    /\ pc = "shininess_call"
    /\ result' = [shininess |-> roughness_to_shininess(call.roughness),
                  other |-> roughness_to_shininess(call.other)]
    /\ pc' = "shininess_done"
    /\ UNCHANGED <<osname, call, builderVars, hostVars>>

ShininessNext == CallShininess

SpecShininess == ShininessInit /\ [][ShininessNext]_vars

-----------------------------------------------------------------------------
(* get_material_color on its own; a color is the number of the place it    *)
(* is stored at: k for the input of node k, 0 for material.diffuse_color   *)

\* the largest number of nodes in a node tree
MaxNodes == 3

\* a surface node and the name of its color input
ColorNodeKinds ==
    {[type |-> "BSDF_PRINCIPLED", inputs |-> {"Base Color"}],
     [type |-> "BSDF_DIFFUSE", inputs |-> {"Color"}],
     [type |-> "EMISSION", inputs |-> {"Color"}]}

ColorMaterials ==
    {[use_nodes |-> u, nodes |-> ns, diffuse_color |-> 0] :
        u \in BOOLEAN,
        ns \in UNION {[1..n -> ColorNodeKinds] : n \in 0..MaxNodes}}

\* material_exporter.py:30-47: the loop over the nodes from node k on
RECURSIVE ColorFromNode(_, _)
ColorFromNode(material, k) ==
    IF k > Len(material.nodes) THEN material.diffuse_color
    ELSE LET node == material.nodes[k] IN
         IF node.type = "BSDF_PRINCIPLED" /\ "Base Color" \in node.inputs
         THEN k
         ELSE IF node.type = "BSDF_DIFFUSE" /\ "Color" \in node.inputs
         THEN k
         ELSE ColorFromNode(material, k + 1)

\* get_material_color, material_exporter.py:16-50
get_material_color(material) ==
    IF ~material.use_nodes THEN material.diffuse_color
    ELSE ColorFromNode(material, 1)

ColorInit ==
    /\ osname = "posix"
    /\ \E m \in ColorMaterials :
          call = [fn |-> "get_material_color", material |-> m]
    /\ result = None
    /\ pc = "color_call"
    /\ settings = NoSettings
    /\ BuilderIdle /\ HostIdle

CallMaterialColor ==
    /\ pc = "color_call"
    /\ result' = [color |-> get_material_color(call.material)]
    /\ pc' = "color_done"
    /\ UNCHANGED <<osname, call, builderVars, hostVars>>

ColorNext == CallMaterialColor

SpecColor == ColorInit /\ [][ColorNext]_vars

-----------------------------------------------------------------------------
(* one export run of build_scene_json *)

Str_out == <<"/", "o", "u", "t">>
Str_Demo == <<"D", "e", "m", "o">>
Str_1_0 == <<"1", ".", "0">>

SceneSettings ==
    {[export_directory |-> Str_out, base_url |-> base,
      export_meshes |-> em, export_materials |-> ea, export_textures |-> et,
      scene_name |-> Str_Demo, scene_version |-> Str_1_0,
      schema_version |-> Str_1_0, scene_description |-> <<>>,
      scene_id |-> <<>>, scene_author |-> <<>>, scene_rating |-> <<>>,
      thumbnail_url |-> <<>>] :
        base \in {<<>>, UrlXioA \o <<"/">>}, em \in BOOLEAN, ea \in BOOLEAN,
        et \in BOOLEAN}

Init ==
    /\ osname = "posix"
    /\ objects \in Scenes
    /\ settings \in SceneSettings
    /\ pc = "collect"
    /\ mesh_objects = <<>> /\ light_objects = <<>>
    /\ all_materials = <<>> /\ images = <<>> /\ idx = 0
    /\ textures_dict = <<>> /\ materials_dict = <<>> /\ meshes_dict = <<>>
    /\ files = {} /\ outcome = <<>> /\ log = <<>> /\ doc = <<>>
    /\ run = 1 /\ prevDoc = <<>>
    /\ HostIdle
    /\ call = [fn |-> "build_scene_json"]
    /\ result = None

Next ==
    \/ Collect
    \/ EnterTextures \/ ExportTexture \/ TexturesDone
    \/ EnterMaterials \/ ExportMaterial \/ MaterialsDone
    \/ EnterMeshes \/ SaveSelection \/ ExportMesh \/ MeshLoopDone
    \/ RestoreSelection
    \/ Assemble

Spec == Init /\ [][Next]_vars

-----------------------------------------------------------------------------
(* one export run of scenes whose materials share an image and whose       *)
(* names collide once sanitized: 'Wood' and 'Wood.', 't:w' and 't_w'       *)

ShareScenes == {<<"oTwo">>, <<"oTwo", "oTwin">>, <<"oTwin", "oTwo">>}

ShareInit ==
    /\ osname = "posix"
    /\ objects \in ShareScenes
    /\ settings \in SceneSettings
    /\ pc = "collect"
    /\ mesh_objects = <<>> /\ light_objects = <<>>
    /\ all_materials = <<>> /\ images = <<>> /\ idx = 0
    /\ textures_dict = <<>> /\ materials_dict = <<>> /\ meshes_dict = <<>>
    /\ files = {} /\ outcome = <<>> /\ log = <<>> /\ doc = <<>>
    /\ run = 1 /\ prevDoc = <<>>
    /\ HostIdle
    /\ call = [fn |-> "build_scene_json"]
    /\ result = None

SpecShare == ShareInit /\ [][Next]_vars

-----------------------------------------------------------------------------
(* two export runs of the same scene with the same settings; the external  *)
(* calls answer as in the first run, the files of the first run remain     *)

\* export_operator.py:173-175: the operator is executed again
Restart ==
    /\ pc = "done" /\ run = 1
    /\ prevDoc' = doc
    /\ run' = 2
    /\ pc' = "collect"
    /\ mesh_objects' = <<>> /\ light_objects' = <<>>
    /\ all_materials' = <<>> /\ images' = <<>> /\ idx' = 0
    /\ textures_dict' = <<>> /\ materials_dict' = <<>> /\ meshes_dict' = <<>>
    /\ log' = <<>> /\ doc' = <<>>
    /\ UNCHANGED <<osname, objects, settings, files, outcome, call, result,
                   hostVars>>

NextTwice == Next \/ Restart

SpecTwice == Init /\ [][NextTwice]_vars

-----------------------------------------------------------------------------
(* the export operator: EXPORT_SCENE_OT_blazium_scene.execute              *)

Str_scene_json == <<"s", "c", "e", "n", "e", ".", "j", "s", "o", "n">>
Str_write_test == <<".", "w", "r", "i", "t", "e", "_", "t", "e", "s", "t">>
Str_index_html == <<"i", "n", "d", "e", "x", ".", "h", "t", "m", "l">>
Str_ID7 == <<"I", "D", "7">>
Str_My_S == <<" ", "M", "y", ":", "S", ".">>

\* self.filepath: a file in the directory /out, or a bare file name
OpFilepaths == {PathJoin("posix", Str_out, Str_scene_json), Str_scene_json}

OpScenes == {<<>>, <<"oPbr">>, <<"oSun">>}

\* export_operator.py:154-171: the dict made of the scene's properties
OpSettings(export_directory) ==
    {[export_directory |-> export_directory, base_url |-> <<>>,
      export_meshes |-> TRUE, export_materials |-> TRUE,
      export_textures |-> TRUE, export_pbr_maps |-> pbr,
      generate_html |-> html,
      scene_name |-> name, scene_version |-> Str_1_0,
      schema_version |-> Str_1_0, scene_description |-> descr,
      scene_id |-> id, scene_author |-> author, scene_rating |-> rating,
      thumbnail_url |-> thumb] :
        pbr \in BOOLEAN, html \in BOOLEAN,
        name \in {Str_Demo, Str_My_S}, id \in {<<>>, Str_ID7},
        descr \in {<<>>, <<"d">>}, author \in {<<>>, <<"a">>},
        rating \in {<<>>, <<"G">>}, thumb \in {<<>>, <<"t">>}}

\* self.report(...) and the returned status
Report(res, level, message) ==
    [res EXCEPT !.reports = Append(@, <<level, message>>)]
Cancelled(res, message) ==
    [Report(res, "ERROR", message) EXCEPT !.status = "CANCELLED"]

OpInit ==
    /\ osname = "posix"
    /\ objects \in OpScenes
    /\ \E fp \in OpFilepaths :
          /\ call = [fn |-> "execute", filepath |-> fp]
          /\ settings \in OpSettings(Dirname(osname, fp))
    /\ pc = "op_validate"
    /\ mesh_objects = <<>> /\ light_objects = <<>>
    /\ all_materials = <<>> /\ images = <<>> /\ idx = 0
    /\ textures_dict = <<>> /\ materials_dict = <<>> /\ meshes_dict = <<>>
    /\ files = {} /\ outcome = <<>> /\ log = <<>> /\ doc = <<>>
    /\ run = 1 /\ prevDoc = <<>>
    /\ HostIdle
    /\ result = [status |-> None, reports |-> <<>>, prefs |-> None]

\* what creating and probing the export directory can do
ProbeAnswers ==
    {"ok", "makedirs_raise", "open_raise", "write_raise", "remove_raise"}

\* export_operator.py:119-144: the directory is validated and probed with
\* the file .write_test
ValidateDirectory ==
    /\ pc = "op_validate"
    /\ IF settings.export_directory = <<>>
       THEN /\ result' = Cancelled(result, "Export directory not set")
            /\ pc' = "op_returned"
            /\ UNCHANGED <<files, outcome>>
       ELSE LET test_file == PathJoin(osname, settings.export_directory,
                                      Str_write_test)
            IN  \E oc \in Answers("probe", ProbeAnswers) :
                  /\ outcome' = Record("probe", oc)
                  /\ files' = IF oc \in {"write_raise", "remove_raise"}
                              THEN files \cup {test_file} ELSE files
                  /\ IF oc = "ok"
                     THEN pc' = "collect" /\ UNCHANGED result
                     ELSE /\ result' =
                               Cancelled(result,
                                   IF oc = "makedirs_raise"
                                   THEN "Invalid export directory"
                                   ELSE "Cannot write to directory")
                          /\ pc' = "op_returned"
    /\ UNCHANGED <<osname, objects, settings, mesh_objects, light_objects,
                   all_materials, images, idx, textures_dict, materials_dict,
                   meshes_dict, log, doc, run, prevDoc, call, hostVars>>

\* scene_builder.py:91-92 raising inside the try of export_operator.py:173:
\* the operator's handler, export_operator.py:201-205
BuildFails ==
    /\ pc = "collect" /\ call.fn = "execute"
    /\ result' = Cancelled(result, "Export failed")
    /\ pc' = "op_returned"
    /\ UNCHANGED <<osname, objects, settings, mesh_objects, light_objects,
                   all_materials, images, idx, textures_dict, materials_dict,
                   meshes_dict, files, outcome, log, doc, run, prevDoc, call,
                   hostVars>>

\* what writing a file can do: written, not created, or left half written
WriteAnswers == {"ok", "raise", "partial"}

\* a write that always claims success
write_scene_json_AlwaysTrue(oc) == TRUE

\* the value write_scene_json returns, scene_builder.py:245-253
write_scene_json(oc) == oc = "ok"

\* export_operator.py:177-180 with write_scene_json, scene_builder.py:245-253
WriteSceneJson ==
    /\ pc = "done" /\ call.fn = "execute"
    /\ \E oc \in Answers("scene_json", WriteAnswers) :
          /\ outcome' = Record("scene_json", oc)
          /\ files' = IF oc = "raise" THEN files
                      ELSE files \cup {call.filepath}
          /\ IF write_scene_json(oc)
             THEN pc' = "op_html" /\ UNCHANGED result
             ELSE /\ result' = Cancelled(result, "Failed to write scene.json")
                  /\ pc' = "op_returned"
    /\ UNCHANGED <<osname, objects, settings, mesh_objects, light_objects,
                   all_materials, images, idx, textures_dict, materials_dict,
                   meshes_dict, log, doc, run, prevDoc, call, hostVars>>

\* a failed wrapper ends the operator
AfterHtmlWrapper_Aborting(success) ==
    IF success THEN "op_finish" ELSE "op_returned"

\* export_operator.py:186-189: the operator goes on either way
AfterHtmlWrapper(success) == "op_finish"

\* export_operator.py:182-187 with generate_html_wrapper,
\* html_wrapper.py:18-75
GenerateHtml ==
    /\ pc = "op_html"
    /\ IF settings.generate_html
       THEN LET html_path == PathJoin(osname, settings.export_directory,
                                      Str_index_html)
            IN  \E oc \in Answers("html", WriteAnswers) :
                  /\ outcome' = Record("html", oc)
                  /\ files' = IF oc = "raise" THEN files
                              ELSE files \cup {html_path}
                  /\ result' = IF oc = "ok" THEN result
                               ELSE Report(result, "WARNING",
                                           "Failed to generate HTML wrapper")
                  /\ pc' = AfterHtmlWrapper(oc = "ok")
       ELSE /\ pc' = "op_finish"
            /\ UNCHANGED <<files, outcome, result>>
    /\ UNCHANGED <<osname, objects, settings, mesh_objects, light_objects,
                   all_materials, images, idx, textures_dict, materials_dict,
                   meshes_dict, log, doc, run, prevDoc, call, hostVars>>

\* export_operator.py:189-199: the preferences of the add-on, when it is
\* registered under the package's name, take the export directory
Finish ==
    /\ pc = "op_finish"
    /\ \E registered \in BOOLEAN :
          result' = [Report(result, "INFO", "Export completed successfully")
                       EXCEPT !.status = "FINISHED",
                              !.prefs = IF registered
                                        THEN settings.export_directory ELSE @]
    /\ pc' = "op_returned"
    /\ UNCHANGED <<osname, objects, settings, mesh_objects, light_objects,
                   all_materials, images, idx, textures_dict, materials_dict,
                   meshes_dict, files, outcome, log, doc, run, prevDoc, call,
                   hostVars>>

OpNext ==
    \/ ValidateDirectory \/ BuildFails
    \/ Next
    \/ WriteSceneJson \/ GenerateHtml \/ Finish

SpecOp == OpInit /\ [][OpNext]_vars

-----------------------------------------------------------------------------
(* export_all_meshes on its own, from every selection state of the host *)

MeshSettings ==
    [export_directory |-> Str_out, base_url |-> <<>>,
     export_meshes |-> TRUE, export_materials |-> TRUE,
     export_textures |-> TRUE]

\* the active object and its mode: only a mesh can be in edit mode
HostStates ==
    {<<None, "OBJECT">>, <<"oCube", "OBJECT">>, <<"oCube", "EDIT">>,
     <<"oAB2", "OBJECT">>, <<"oSun", "OBJECT">>}

MeshInit ==
    /\ osname = "posix"
    /\ settings = MeshSettings
    /\ objects = <<>>
    /\ mesh_objects \in Scenes
    /\ selected \in SUBSET {"oCube", "oAB1", "oSun"}
    /\ \E h \in HostStates : active = h[1] /\ mode = h[2]
    /\ old_selected = {} /\ old_active = None /\ old_mode = None
    /\ call = [fn |-> "export_all_meshes", selected |-> selected,
               active |-> active, mode |-> mode]
    /\ pc = "mesh_save"
    /\ light_objects = <<>> /\ all_materials = <<>> /\ images = <<>>
    /\ idx = 0
    /\ textures_dict = <<>> /\ materials_dict = <<>> /\ meshes_dict = <<>>
    /\ files = {} /\ outcome = <<>> /\ log = <<>> /\ doc = <<>>
    /\ run = 1 /\ prevDoc = <<>>
    /\ result = None

MeshNext ==
    \/ SaveSelection \/ ExportMesh \/ MeshLoopDone \/ RestoreSelection

SpecMesh == MeshInit /\ [][MeshNext]_vars

-----------------------------------------------------------------------------
(* Properties of the scene document *)

Returned == pc = "done"
DocAssets == doc["assets"]
DocInstances == IF "instances" \in DOMAIN doc THEN doc["instances"] ELSE <<>>
HasInstancesKey == "instances" \in DOMAIN doc

AssetIds(type) ==
    {DocAssets[k].id : k \in {j \in 1..Len(DocAssets) : DocAssets[j].type = type}}
ModelInstanceIdx ==
    {i \in 1..Len(DocInstances) : DocInstances[i].type = "model"}

\* what the environment answered for an item in this run
Tried(item) == item \in DOMAIN outcome
Succeeded(item) == Tried(item) /\ outcome[item] = "ok"
Failed(item) == Tried(item) /\ outcome[item] # "ok"

SceneMeshes == {o \in Range(objects) : SceneObjects[o].type = "MESH"}
SceneLights == {o \in Range(objects) : SceneObjects[o].type = "LIGHT"}
SceneMaterials ==
    {m \in DOMAIN Materials :
        \E o \in SceneMeshes : m \in Range(SceneObjects[o].materials)}
SceneImages == UNION {MaterialImages(m) : m \in SceneMaterials}

MeshId(o) == sanitize_filename(SceneObjects[o].name)
MaterialId(m) == sanitize_filename(Materials[m].name)
ImageId(i) == sanitize_filename(Images[i].name)

Str_Cube == <<"C", "u", "b", "e">>
Str_Red == <<"R", "e", "d">>

\* C1: in every returned scene document, every instance of type 'model'
\* has an 'asset' equal to the id of some asset of type 'model'.
C1_ModelInstanceHasModelAsset ==
    Returned =>
        \A i \in ModelInstanceIdx : DocInstances[i].asset \in AssetIds("model")

\* a document with a model instance, returned by a run in which the export
\* of another mesh object raised
C1_Witness ==
    /\ Returned
    /\ ModelInstanceIdx # {}
    /\ \E o \in SceneMeshes : Tried(o) /\ outcome[o] = "raise"

\* C2: a model instance is emitted for a mesh object only when that same
\* object's mesh export succeeded, also when its sanitized name equals that
\* of another object whose export succeeded.
C2_InstanceOnlyForOwnSuccess ==
    Returned =>
        \A i \in ModelInstanceIdx : Succeeded(DocInstances[i].transform.of)

\* C3: an item whose export failed is absent from its asset map, from
\* assets[] and (a mesh) from instances[]; every item that exported
\* successfully is present; the document is returned all the same.
FileOfAnother(o) ==
    \E q \in SceneMeshes : q # o /\ Succeeded(q) /\ MeshId(q) = MeshId(o)
C3_FailedItemAbsent ==
    Returned =>
        /\ \A o \in SceneMeshes :
              Failed(o) =>
                /\ \A i \in ModelInstanceIdx : DocInstances[i].transform.of # o
                /\ FileOfAnother(o)
                   \/ (/\ MeshId(o) \notin DictKeys(meshes_dict)
                       /\ MeshId(o) \notin AssetIds("model"))
        /\ \A m \in SceneMaterials :
              (Failed(m) /\ \A q \in SceneMaterials :
                               Succeeded(q) => MaterialId(q) # MaterialId(m))
              => /\ MaterialId(m) \notin DictKeys(materials_dict)
                 /\ MaterialId(m) \notin AssetIds("material")
        /\ \A t \in SceneImages :
              Failed(t) => /\ ImageId(t) \notin DictKeys(textures_dict)
                           /\ ImageId(t) \notin AssetIds("texture")
        /\ \A o \in SceneMeshes :
              Succeeded(o) =>
                /\ MeshId(o) \in DictKeys(meshes_dict)
                /\ MeshId(o) \in AssetIds("model")
                /\ \E i \in ModelInstanceIdx : DocInstances[i].transform.of = o
        /\ \A m \in SceneMaterials :
              Succeeded(m) => /\ MaterialId(m) \in DictKeys(materials_dict)
                              /\ MaterialId(m) \in AssetIds("material")
        /\ \A t \in SceneImages :
              Succeeded(t) => /\ ImageId(t) \in DictKeys(textures_dict)
                              /\ ImageId(t) \in AssetIds("texture")

\* C4: after export_all_meshes returns, on every exit path, the selected
\* objects and the active object are what they were before the call, also
\* when no object was active before the call.
C4_SelectionRestored ==
    pc = "mesh_returned" =>
        /\ selected = call.selected
        /\ active = call.active


LogIdx(kind) == {i \in 1..Len(log) : log[i][1] = kind}
Handed(kind) == {log[i][2] : i \in LogIdx(kind)}

\* C5: the exporters run in the order textures, materials, meshes: no
\* material file is written before every texture export has finished, the
\* material exporter receives the complete texture map, and no mesh export
\* call is issued before every material export has finished.
C5_ExportOrder ==
    /\ \A i \in LogIdx("material") :
          /\ \A j \in LogIdx("texture") : j < i
          /\ settings.export_textures => Handed("texture") = SceneImages
          /\ log[i][3] = textures_dict
    /\ \A i \in LogIdx("mesh") :
          /\ \A j \in LogIdx("texture") \cup LogIdx("material") : j < i
          /\ settings.export_textures /\ SceneMaterials # {}
                => Handed("texture") = SceneImages
          /\ settings.export_materials => Handed("material") = SceneMaterials

\* a returned run that exported a texture, a material and a mesh
C5_Witness ==
    /\ Returned
    /\ LogIdx("texture") # {} /\ LogIdx("material") # {} /\ LogIdx("mesh") # {}
    /\ Len(materials_dict) = 2

\* C6: with export_meshes false the mesh map is empty, the geometry
\* exporter is never called, there is no model asset and no model instance,
\* and the materials and textures of the mesh objects are still exported
\* and listed when export_materials / export_textures are true.
C6_MeshExportDisabled ==
    ~settings.export_meshes =>
        /\ meshes_dict = <<>>
        /\ LogIdx("mesh") = {}
        /\ Returned =>
             /\ AssetIds("model") = {}
             /\ ModelInstanceIdx = {}
             /\ settings.export_materials =>
                  /\ Handed("material") = SceneMaterials
                  /\ \A m \in SceneMaterials :
                        Succeeded(m) => MaterialId(m) \in AssetIds("material")
             /\ settings.export_textures =>
                  /\ Handed("texture") = SceneImages
                  /\ \A t \in SceneImages :
                        Succeeded(t) => ImageId(t) \in AssetIds("texture")

\* a document without models that lists a material and a texture
C6_Witness ==
    /\ Returned /\ ~settings.export_meshes
    /\ SceneMeshes # {}
    /\ AssetIds("material") # {} /\ AssetIds("texture") # {}

\* C7: the document has the key 'instances' if and only if at least one
\* model instance or light instance was produced; for a scene with zero
\* objects 'assets' is the empty list and there is no 'instances' key.
C7_InstancesKeyIffSome ==
    Returned =>
        /\ HasInstancesKey <=>
              \/ \E o \in SceneMeshes : MeshId(o) \in DictKeys(meshes_dict)
              \/ SceneLights # {}
        /\ HasInstancesKey => doc["instances"] # <<>>
        /\ objects = <<>> => DocAssets = <<>> /\ ~HasInstancesKey

\* the document of a scene whose only mesh failed: no 'instances' key
C7_Witness ==
    /\ Returned
    /\ ~HasInstancesKey
    /\ \E o \in SceneMeshes : Failed(o)

\* C8: assets[] is one 'model' entry per key of the mesh map, then one
\* 'material' entry per key of the material map, then one 'texture' entry
\* per key of the texture map, and nothing else; mesh 'Cube' with material
\* 'Red', no textures, all exports succeeding: assets[] has the ids 'Cube'
\* and 'Red', instances[] one model instance whose asset is 'Cube'.
CubeScenario ==
    /\ objects = <<"oCube">>
    /\ settings.export_meshes /\ settings.export_materials
    /\ settings.export_textures
    /\ Succeeded("oCube") /\ Succeeded("mRed")

OnePerKey(d) == Cardinality(DictKeys(d)) = Len(d)

C8_AssetsMirrorMaps ==
    Returned =>
        LET nm == Len(meshes_dict)
            na == Len(materials_dict)
            nx == Len(textures_dict)
        IN  /\ Len(DocAssets) = nm + na + nx
            /\ OnePerKey(meshes_dict) /\ OnePerKey(materials_dict)
            /\ OnePerKey(textures_dict)
            /\ \A k \in 1..nm :
                  /\ DocAssets[k].type = "model"
                  /\ DocAssets[k].mediaType = "model/obj"
                  /\ DocAssets[k].id = meshes_dict[k][1]
            /\ \A k \in 1..na :
                  /\ DocAssets[nm + k].type = "material"
                  /\ DocAssets[nm + k].mediaType = "model/mtl"
                  /\ DocAssets[nm + k].id = materials_dict[k][1]
            /\ \A k \in 1..nx :
                  /\ DocAssets[nm + na + k].type = "texture"
                  /\ DocAssets[nm + na + k].id = textures_dict[k][1]
            /\ CubeScenario =>
                  /\ [k \in 1..Len(DocAssets) |-> DocAssets[k].id]
                        = <<Str_Cube, Str_Red>>
                  /\ [k \in 1..Len(DocAssets) |-> DocAssets[k].type]
                        = <<"model", "material">>
                  /\ Len(DocInstances) = 1
                  /\ DocInstances[1].type = "model"
                  /\ DocInstances[1].asset = Str_Cube

\* the document of the scene with the mesh 'Cube' and the material 'Red'
C8_Witness == Returned /\ CubeScenario

\* C9: exporting the same scene with the same settings twice gives the
\* same document both times, whatever order the deduplicating sets iterate in.
C9_SameDocumentTwice == (Returned /\ run = 2) => doc = prevDoc

-----------------------------------------------------------------------------
(* Properties of build_asset_uri *)

Str_meshes_cube_obj ==
    <<"m", "e", "s", "h", "e", "s", "/", "c", "u", "b", "e", ".", "o", "b", "j">>

\* the relative path of the file, written with forward slashes
SlashPath == JoinWith(call.comps, <<"/">>)
BaseName == call.comps[Len(call.comps)]
\* the base URL without its trailing slashes
BareBase == RStrip(call.base_url, {"/"})

\* C10: for a file under the export root the URI is, with an empty base
\* URL, the path relative to the root with forward slashes, and otherwise
\* the base URL with its trailing slash stripped, '/', and that path; when
\* the relative path cannot be computed the base name takes its place.
C10_AssetUri ==
    pc = "uri_done" =>
        /\ (call.under /\ call.base_url = <<>>) => result = SlashPath
        /\ (call.under /\ call.base_url # <<>>)
              => result = BareBase \o <<"/">> \o SlashPath
        /\ (~call.under /\ osname = "nt" /\ call.base_url = <<>>)
              => result = BaseName
        /\ (~call.under /\ osname = "nt" /\ call.base_url # <<>>)
              => result = BareBase \o <<"/">> \o BaseName
        /\ (/\ call.export_dir = Str_out
            /\ call.filepath = Str_out \o <<"/">> \o Str_meshes_cube_obj
            /\ osname = "posix")
              => /\ call.base_url = <<>> => result = Str_meshes_cube_obj
                 /\ call.base_url = UrlXioA \o <<"/">>
                      => result = UrlXioA \o <<"/">> \o Str_meshes_cube_obj

\* 'https://x.io/a/' and '/out/meshes/cube.obj' under '/out'
C10_Witness ==
    /\ pc = "uri_done"
    /\ call.under
    /\ call.base_url = UrlXioA \o <<"/">>
    /\ result = UrlXioA \o <<"/">> \o Str_meshes_cube_obj

-----------------------------------------------------------------------------
(* Properties of sanitize_filename *)

\* C11: sanitize_filename is idempotent, sanitize(sanitize(x)) =
\* sanitize(x); its result contains none of the characters < > : " / \ | ? *
\* and neither starts nor ends with a space or a dot.
C11_SanitizeIdempotent ==
    /\ pc \in {"san_once", "san_twice"} =>
          /\ \A i \in 1..Len(result) : result[i] \notin Range(invalid_chars)
          /\ result # <<>> =>
                /\ result[1] \notin {" ", "."}
                /\ result[Len(result)] \notin {" ", "."}
    /\ pc = "san_twice" => result = call.name

\* a name that starts with a dot and holds a replaced character, sanitized
\* twice
C11_Witness ==
    /\ pc = "san_twice"
    /\ call.first # call.name
    /\ Len(call.first) = 3 /\ call.first[1] = "." /\ call.first[2] = ":"
    /\ result = <<"_", "a">>

-----------------------------------------------------------------------------
(* Properties of the document's metadata and of the export operator *)

\* build_scene_json has returned its document
Built == "assets" \in DOMAIN doc

Str_my_s == <<"m", "y", "_", "s">>

\* C12: the scene document always carries an 'id': the configured scene_id
\* when that is non-empty, otherwise sanitize(scene_name) in lower case.
C12_SceneIdAlways ==
    Built =>
        /\ "id" \in DOMAIN doc
        /\ settings.scene_id # <<>> => doc["id"] = settings.scene_id
        /\ settings.scene_id = <<>> =>
              /\ doc["id"] = Lower(sanitize_filename(settings.scene_name))
              /\ settings.scene_name = Str_My_S => doc["id"] = Str_my_s

\* a document whose id was derived from the name ' My:S.'
C12_Witness ==
    /\ Built /\ call.fn = "execute"
    /\ settings.scene_id = <<>> /\ settings.scene_name = Str_My_S
    /\ doc["id"] = Str_my_s

OptionalKeys ==
    {<<"description", "scene_description">>, <<"author", "scene_author">>,
     <<"rating", "scene_rating">>, <<"thumbnail", "thumbnail_url">>}

\* C13: the document always contains name, version, schemaVersion and
\* assets; each of description, author, rating, thumbnail is present if and
\* only if its setting is non-empty, and then equals that setting.
C13_OptionalKeys ==
    Built =>
        /\ {"name", "version", "schemaVersion", "assets"} \subseteq DOMAIN doc
        /\ doc["name"] = settings.scene_name
        /\ doc["version"] = settings.scene_version
        /\ doc["schemaVersion"] = settings.schema_version
        /\ \A k \in OptionalKeys :
              /\ k[1] \in DOMAIN doc <=> settings[k[2]] # <<>>
              /\ k[1] \in DOMAIN doc => doc[k[1]] = settings[k[2]]

\* a document with an author and a description, without rating or thumbnail
C13_Witness ==
    /\ Built /\ call.fn = "execute"
    /\ settings.scene_author # <<>> /\ settings.scene_rating = <<>>
    /\ {"author", "description"} \subseteq DOMAIN doc
    /\ doc["author"] = <<"a">> /\ doc["description"] = <<"d">>
    /\ "rating" \notin DOMAIN doc /\ "thumbnail" \notin DOMAIN doc

ProbeFailed == Tried("probe") /\ outcome["probe"] # "ok"
Reported(level) ==
    \E i \in 1..Len(result.reports) : result.reports[i][1] = level

\* C14: if the export directory cannot be created or is not writable, the
\* operator ends with CANCELLED and an error report before build_scene_json
\* is called; no scene JSON, asset file or HTML file is written and nothing
\* is left behind in the export directory.
C14_NothingWrittenOnBadDirectory ==
    ProbeFailed =>
        /\ pc = "op_returned"
        /\ result.status = "CANCELLED" /\ Reported("ERROR")
        /\ ~Built /\ log = <<>>
        /\ files = {}

HtmlFailed == Tried("html") /\ outcome["html"] # "ok"
AssetFiles ==
    {textures_dict[i][2] : i \in 1..Len(textures_dict)}
    \cup {materials_dict[i][2] : i \in 1..Len(materials_dict)}
    \cup {meshes_dict[i][2] : i \in 1..Len(meshes_dict)}

\* C15: a failure to generate the HTML wrapper never aborts the export:
\* with the scene JSON written and generate_html_wrapper failing, the
\* operator reports a warning and ends with FINISHED, the scene JSON and
\* the asset files left in place.
C15_HtmlFailureIsWarning ==
    (pc = "op_returned" /\ HtmlFailed) =>
        /\ result.status = "FINISHED"
        /\ Reported("WARNING") /\ ~Reported("ERROR")
        /\ outcome["scene_json"] = "ok"
        /\ call.filepath \in files
        /\ AssetFiles \subseteq files

\* the operator has returned after a failed wrapper, assets exported
C15_Witness ==
    /\ pc = "op_returned" /\ HtmlFailed
    /\ result.status = "FINISHED"
    /\ meshes_dict # <<>> /\ materials_dict # <<>> /\ textures_dict # <<>>

-----------------------------------------------------------------------------
(* Properties of the material files *)

\* the material files written: events of the log that wrote a file
MtlEvents == {i \in LogIdx("material") : Succeeded(log[i][2])}
MtlLines(i) == {log[i][4][k] : k \in 1..Len(log[i][4])}

\* the image each map key refers to
MapRoles(mat) ==
    {<<"map_Kd", get_diffuse_texture(mat)>>,
     <<"map_Pm", get_metallic_texture(mat)>>,
     <<"norm", get_normal_texture(mat)>>,
     <<"map_Ka", get_ao_texture(mat)>>,
     <<"map_disp", get_height_texture(mat)>>,
     <<"map_Pr", get_roughness_texture(mat)>>}

BareFileName(name) ==
    /\ name # <<>>
    /\ \A k \in 1..Len(name) : name[k] \notin {"/", "\\"}
    /\ name # <<".", ".">>

Str_d_png == <<"_", "d", ".", "p", "n", "g">>
Str_m_AO_png == <<"m", "_", "A", "O", ".", "p", "n", "g">>

C17_PbrMapsOnlyIfEnabled ==
    (call.fn = "execute" /\ ~settings.export_pbr_maps) =>
        \A i \in MtlEvents : \A line \in MtlLines(i) : line[1] = "map_Kd"

-----------------------------------------------------------------------------
(* Properties of the light instances *)

\* export_light_instance has returned an instance
LightExported == pc = "light_done" /\ result.type # "None"
LightIn == call.blender_light.light
LightOut == result.light

\* C18: for every light and every energy, 0 and negative values included,
\* the exported intensity is at least 0.1: max(0.1, energy/10) for a sun,
\* max(0.1, energy) for any other light; a point light with energy 0 gets
\* 0.1; 'enabled' is true exactly when the object is not hidden in the
\* viewport.  (intensity in thousandths, energy in hundredths)
C18_IntensityFloor ==
    LightExported =>
        /\ LightOut["intensity"] >= 100
        /\ LightIn.type = "SUN" =>
              /\ LightOut["intensity"] >= LightIn.energy
              /\ LightOut["intensity"] \in {100, LightIn.energy}
        /\ LightIn.type # "SUN" =>
              /\ LightOut["intensity"] >= LightIn.energy * 10
              /\ LightOut["intensity"] \in {100, LightIn.energy * 10}
        /\ (LightIn.type = "POINT" /\ LightIn.energy = 0) =>
              LightOut["intensity"] = 100
        /\ LightOut["enabled"] <=> ~call.blender_light.hide_viewport

\* a hidden point light with energy 0
C18_Witness ==
    /\ LightExported
    /\ LightIn.type = "POINT" /\ LightIn.energy = 0
    /\ call.blender_light.hide_viewport
    /\ LightOut["intensity"] = 100 /\ ~LightOut["enabled"]

\* C19: for a spot light with a non-negative spot angle and a non-negative
\* blend factor, 0 <= cutoff <= outerCutoff <= 90; both values stay within
\* [0, 90] for every input, a blend above 1 and an angle above 90 degrees
\* included.  (tenths of a degree)
C19_SpotCutoffRange ==
    (LightExported /\ LightIn.type = "SPOT") =>
        /\ LightOut["cutoff"] \in 0..900
        /\ LightOut["outerCutoff"] \in 0..900
        /\ (LightIn.spot_size >= 0 /\ LightIn.spot_blend >= 0) =>
              LightOut["cutoff"] <= LightOut["outerCutoff"]

\* a spot of 100 degrees with blend 1.5
C19_Witness ==
    /\ LightExported /\ LightIn.type = "SPOT"
    /\ LightIn.spot_size = 20 /\ LightIn.spot_blend = 15
    /\ LightOut["cutoff"] = 900 /\ LightOut["outerCutoff"] = 900

\* C20: point maps to 'pointLight', sun to 'directionalLight', spot to
\* 'spotLight', area to 'pointLight'; 'range' and 'attenuation' exactly for
\* point, spot and area lights, 'direction' exactly for sun and spot lights,
\* 'cutoff' and 'outerCutoff' exactly for spot lights, 'shadowOrthoSize'
\* only for sun lights with shadows enabled.
C20_LightKindProperties ==
    LightExported =>
        LET kind == LightIn.type
            keys == DOMAIN LightOut
        IN  /\ kind = "POINT" => result.type = "pointLight"
            /\ kind = "SUN" => result.type = "directionalLight"
            /\ kind = "SPOT" => result.type = "spotLight"
            /\ kind = "AREA" => result.type = "pointLight"
            /\ "range" \in keys <=> kind \in {"POINT", "SPOT", "AREA"}
            /\ "attenuation" \in keys <=> kind \in {"POINT", "SPOT", "AREA"}
            /\ "direction" \in keys <=> kind \in {"SUN", "SPOT"}
            /\ "cutoff" \in keys <=> kind = "SPOT"
            /\ "outerCutoff" \in keys <=> kind = "SPOT"
            /\ "shadowOrthoSize" \in keys =>
                  kind = "SUN" /\ LightIn.use_shadow

\* an area light exported as a point light with range and attenuation
C20_Witness ==
    /\ LightExported /\ LightIn.type = "AREA"
    /\ result.type = "pointLight"
    /\ {"range", "attenuation"} \subseteq DOMAIN LightOut
    /\ "direction" \notin DOMAIN LightOut


\* C21: whatever the name of the light object, the id of the light instance
\* contains none of the characters < > : " / \ | ? *, no space and no dot.
C21_LightIdSanitized ==
    LightExported =>
        \A i \in 1..Len(result.id) :
            result.id[i] \notin Range(invalid_chars) \cup {" ", "."}


\* C22: for a roughness r in [0, 1] roughness_to_shininess returns
\* (1 - r) * 1000, a value in [0, 1000], and a larger roughness never gives
\* a larger shininess: 0 gives 1000, 1 gives 0.
C22_ShininessRange ==
    pc = "shininess_done" =>
        /\ result.shininess * 100 = (100 - call.roughness) * 1000
        /\ result.shininess \in 0..1000
        /\ call.roughness = 0 => result.shininess = 1000
        /\ call.roughness = 100 => result.shininess = 0
        /\ call.roughness < call.other => result.shininess > result.other

\* roughness 0.25 and 0.75 give 750 and 250
C22_Witness ==
    /\ pc = "shininess_done"
    /\ call.roughness = 25 /\ call.other = 75
    /\ result.shininess = 750 /\ result.other = 250


-----------------------------------------------------------------------------
(* Properties of shared images and colliding names *)

\* the texture assets of the document with the id of image img
TextureAssetsOf(img) ==
    {k \in 1..Len(DocAssets) :
        DocAssets[k].type = "texture" /\ DocAssets[k].id = ImageId(img)}

\* C23: in one run export_texture is called exactly once for every distinct
\* image the materials reference, however many materials or nodes reference
\* it; an image shared by several materials has a single entry in the
\* texture map and a single texture asset.
C23_EachImageOnce ==
    /\ \A i, j \in LogIdx("texture") : log[i][2] = log[j][2] => i = j
    /\ OnePerKey(textures_dict)
    /\ (Returned /\ settings.export_textures) =>
          /\ Handed("texture") = SceneImages
          /\ \A img \in SceneImages :
                /\ Succeeded(img) => Cardinality(TextureAssetsOf(img)) = 1
                /\ Failed(img) => TextureAssetsOf(img) = {}

\* the image 'bark.png', referenced by the materials 'Wood' and 'Wood.' and
\* by three nodes of the latter, exported by one call
C23_Witness ==
    /\ Returned /\ settings.export_textures
    /\ {"mWood", "mOak"} \subseteq SceneMaterials
    /\ "iBark" \in MaterialImages("mWood") \cap MaterialImages("mOak")
    /\ Cardinality(LogIdx("texture")) = 1
    /\ Succeeded("iBark")
    /\ Cardinality(TextureAssetsOf("iBark")) = 1


-----------------------------------------------------------------------------
(* Properties of the mesh loop *)

\* C24: a failure while one mesh is processed (selecting it, activating it
\* or exporting it) never keeps the remaining meshes from being processed:
\* when export_all_meshes has returned, every mesh object of the list was
\* taken up.
C24_FailureDoesNotStopLoop ==
    pc = "mesh_returned" =>
        \A k \in 1..Len(mesh_objects) :
            SceneObjects[mesh_objects[k]].type = "MESH" =>
                Tried(mesh_objects[k])

\* C25: at every geometry-export call exactly one object is selected, it is
\* the mesh being exported, and it is the active object; no object selected
\* or exported before is still selected.
C25_OnlyTheMeshSelected ==
    \A i \in LogIdx("mesh") :
        /\ SceneObjects[log[i][2]].type = "MESH"
        /\ log[i][3] = {log[i][2]}
        /\ log[i][4] = log[i][2]

\* a second export call, made while other objects were selected before
\* export_all_meshes was called
C25_Witness ==
    /\ Cardinality(LogIdx("mesh")) = 2
    /\ \E i \in LogIdx("mesh") :
          /\ \E j \in LogIdx("mesh") : j < i /\ log[j][2] # log[i][2]
          /\ call.selected \ {log[i][2]} # {}
          /\ log[i][3] = {log[i][2]}

\* C30: when export_all_meshes is called in a mode other than OBJECT, every
\* export call is made in OBJECT mode, and when it has returned the host is
\* in the original mode again, on the original active object.
C30_ModeSwitchedAndRestored ==
    (call.active # None /\ call.mode # "OBJECT") =>
        /\ \A i \in LogIdx("mesh") : log[i][5] = "OBJECT"
        /\ pc = "mesh_returned" =>
              /\ mode = call.mode
              /\ active = call.active

\* called in edit mode on 'Cube'; another mesh exported in OBJECT mode;
\* edit mode on 'Cube' again after the return
C30_Witness ==
    /\ pc = "mesh_returned"
    /\ call.mode = "EDIT" /\ call.active = "oCube"
    /\ \E i \in LogIdx("mesh") : log[i][2] # "oCube" /\ log[i][5] = "OBJECT"
    /\ mode = "EDIT" /\ active = "oCube"


-----------------------------------------------------------------------------
(* Properties of the transforms *)

\* C26: the transform of every model instance and of every light instance
\* of the document is in the Y-up space of the exported geometry: it is the
\* world transform of its object after the axis conversion forward Y, up Z
\* to forward -Z, up Y.
C26_TransformsAreYUp ==
    Returned =>
        \A i \in 1..Len(DocInstances) :
            DocInstances[i].transform =
                get_object_transform_yup(DocInstances[i].transform.of)


-----------------------------------------------------------------------------
(* Properties of the material color *)

\* the nodes of the given type of the material get_material_color was
\* called with
NodesOfType(type) ==
    {k \in 1..Len(call.material.nodes) : call.material.nodes[k].type = type}

\* C27: for a material that uses nodes, get_material_color returns the base
\* color of a Principled node whenever the node list contains one, in
\* whatever position; the color of a diffuse node only if there is no
\* Principled node; the flat material color only if there is neither.
C27_PrincipledFirst ==
    (pc = "color_done" /\ call.material.use_nodes) =>
        IF NodesOfType("BSDF_PRINCIPLED") # {}
        THEN result.color \in NodesOfType("BSDF_PRINCIPLED")
        ELSE IF NodesOfType("BSDF_DIFFUSE") # {}
        THEN result.color \in NodesOfType("BSDF_DIFFUSE")
        ELSE result.color = call.material.diffuse_color


-----------------------------------------------------------------------------
(* Properties of colliding names *)

\* the assets of the document with the given type and id
AssetsWith(type, id) ==
    {k \in 1..Len(DocAssets) :
        DocAssets[k].type = type /\ DocAssets[k].id = id}

\* C28: when two mesh objects, or two materials, have distinct names with
\* the same sanitized form, the map holds one entry for that id, whose file
\* is the one written last under that name, and assets[] holds exactly one
\* asset of that type with that id; no two assets of the same type share an
\* id.
C28_OneAssetPerId ==
    /\ OnePerKey(meshes_dict) /\ OnePerKey(materials_dict)
    /\ OnePerKey(textures_dict)
    /\ Returned =>
          /\ \A j, k \in 1..Len(DocAssets) :
                (DocAssets[j].type = DocAssets[k].type
                 /\ DocAssets[j].id = DocAssets[k].id) => j = k
          /\ \A o \in SceneMeshes :
                (settings.export_meshes /\ Succeeded(o)) =>
                    /\ DictGet(meshes_dict, MeshId(o)) = MeshPath(o, meshes_dir)
                    /\ Cardinality(AssetsWith("model", MeshId(o))) = 1
          /\ \A m \in SceneMaterials :
                (settings.export_materials /\ Succeeded(m)) =>
                    /\ DictGet(materials_dict, MaterialId(m))
                          = MaterialPath(m, meshes_dir)
                    /\ Cardinality(AssetsWith("material", MaterialId(m))) = 1

\* the meshes 't:w' and 't_w' and the materials 'Wood' and 'Wood.' all
\* exported: one model asset and one material asset
C28_Witness ==
    /\ Returned
    /\ Succeeded("oTwo") /\ Succeeded("oTwin")
    /\ Succeeded("mWood") /\ Succeeded("mOak")
    /\ MeshId("oTwo") = MeshId("oTwin")
    /\ MaterialId("mWood") = MaterialId("mOak")
    /\ Len(meshes_dict) = 1 /\ Len(materials_dict) = 1
    /\ Cardinality(AssetsWith("model", MeshId("oTwo"))) = 1
    /\ Cardinality(AssetsWith("material", MaterialId("mOak"))) = 1


-----------------------------------------------------------------------------
(* Properties of the operator after the scene file *)

WriteFailed == Tried("scene_json") /\ outcome["scene_json"] # "ok"

\* C29: if writing the scene JSON file fails, the operator ends with
\* CANCELLED and an ERROR report; it never generates the HTML wrapper, never
\* updates the stored default export directory and never reports success;
\* the operator ends with FINISHED only if write_scene_json returned true.
C29_WriteFailureCancels ==
    /\ WriteFailed =>
          /\ pc = "op_returned"
          /\ result.status = "CANCELLED"
          /\ Reported("ERROR")
          /\ ~Reported("INFO")
          /\ ~Tried("html")
          /\ PathJoin(osname, settings.export_directory, Str_index_html)
                \notin files
          /\ result.prefs = None
    /\ result.status = "FINISHED" => Succeeded("scene_json")

\* the assets of a scene were exported, the wrapper was asked for, and the
\* write of the scene file left a half-written file
C29_Witness ==
    /\ WriteFailed /\ outcome["scene_json"] = "partial"
    /\ settings.generate_html
    /\ Built /\ Len(DocAssets) > 0
    /\ call.filepath \in files
    /\ result.status = "CANCELLED"

====
